---- MODULE Spec2Model ----
(***************************************************************************)
(* A model of the rendering core of ash-ext-shader-objects.                *)
(*                                                                         *)
(* Spec     the frame engine: the extraction systems, PresentNode::update, *)
(*          PresentNode::run with record_submit_commandbuffer, the rayon   *)
(*          worker pool that records the draws, and the GPU queue.         *)
(* SpecRes  the resource layer: one Buffer and one Image driven by any     *)
(*          sequence of copy_from_slice / create_view / destroy calls.     *)
(***************************************************************************)
EXTENDS Integers, Sequences, FiniteSets, TLC

\* ------------------------------------------------------------------ bounds
\* entities with a mesh, a material and a transform in the render world
MaxItems == 2
\* threads of the rayon pool (one secondary command buffer each)
NumThreads == 2
\* images of the swapchain
NumImages == 2
\* texture asset handles
MaxTextures == 1
\* highest descriptor set index a shader references
MaxSetIndex == 2
\* bindings a shader declares
MaxBindings == 2
\* bytes of the buffer of the resource layer
BufSize == 3
\* largest element size of a slice handed to copy_from_slice, in bytes
MaxElemSize == 2
\* image views the device hands out in the resource layer
MaxViews == 2
\* nodes handed to add_pass over a run of the pass system
MaxNodes == 3
\* distinct pass ids
MaxIds == 2
\* texture handles registered with the GlobalDescriptorSet in its own layer
MaxKeys == 2
\* GpuImages created over a run of that layer
MaxImages == 3
\* draw items of a frame in the layer of the command thread pool
MaxTasks == 2

Threads == 0 .. (NumThreads - 1)
Items == 1 .. MaxItems
TexKeys == 1 .. MaxTextures
SwapImages == 0 .. (NumImages - 1)
\* keys of GlobalDescriptorSet.buffers: 0 is CAMERA_HANDLE, i the material of item i
CAMERA_HANDLE == 0
BufKeys == 0 .. MaxItems
CbNames == {"draw", "setup"}
SemNames == {"present_complete", "rendering_complete"}

VARIABLES
    \* ---- frame thread
    pc,             \* position of the frame thread
    rsCb,           \* the command buffer record_submit_commandbuffer works on
    calls,          \* device calls PresentNode::run made in the current frame
    \* ---- render world
    objects,        \* number of (mesh, material, transform) entities
    buffers,        \* GlobalDescriptorSet.buffers: the keys that have a buffer
    hostWritten,    \* host-mapped buffers the step just taken wrote by copy_from_slice
    textures,       \* GlobalDescriptorSet.textures: resident keys
    image_infos,    \* GlobalDescriptorSet.image_infos: keys with a cached info
    gdsChanged,     \* bevy change flag of the GlobalDescriptorSet resource
    uploadKey,      \* texture being uploaded by Image::from_image_buffer (0: none)
    staging,        \* its staging buffer: "none", "written"
    \* ---- device
    cbState,        \* primary command buffers: name -> lifecycle state
    cbCmds,         \* primary command buffers: name -> recorded commands
    secState,       \* secondary command buffers: thread -> lifecycle state
    secCmds,        \* secondary command buffers: thread -> items drawn
    secBegin,       \* secondary command buffers: thread -> begin info of the last begin
    fence,          \* name -> signaled
    sem,            \* semaphore -> signaled
    gpuQueue,       \* submissions the GPU has not completed
    present_index,  \* image acquired in this frame (-1: none)
    presented,      \* image whose present was queued in this frame (-1: none)
    \* ---- PresentNode::run locals and the worker pool
    objects_count,  \* draw list length seen by run
    queue,          \* the ArrayQueue of thread indices
    scopeThread,    \* pool thread running the scope body (-1: none)
    spawned,        \* tasks spawned so far by the scope body
    taskState,      \* item -> "none", "queued", "running", "done"
    workerTask,     \* thread -> item it is running (0: idle)
    workerPc,       \* thread -> "idle", "record", "push"
    \* ---- render world, continued
    material_index, \* material -> the texture and the texture index in its uniform buffer
    flush,          \* descriptor writes of PresentNode::update in the current frame
    meshes,         \* ProcessedRenderAssets.meshes: mesh handle -> GpuMesh
    device_error,   \* the device call that returned an error ("": none)
    \* ---- resource layer (SpecRes)
    res,
    \* ---- shader reflection and descriptor synthesis (SpecShader)
    shader,
    \* ---- SequentialPassSystem (SpecPass)
    graph,
    \* ---- GlobalDescriptorSet with the images behind its keys (SpecGds)
    gds,
    \* ---- the command thread pool and the lock of its buffer map (SpecPool)
    tp

frameVars == <<pc, rsCb, calls, objects, buffers, hostWritten, textures, image_infos, gdsChanged,
               uploadKey, staging, cbState, cbCmds, secState, secCmds, secBegin, fence, sem,
               gpuQueue, present_index, presented, objects_count, queue, scopeThread,
               spawned, taskState, workerTask, workerPc,
               material_index, flush, meshes, device_error>>
extVars == <<material_index, flush, meshes, device_error>>
vars == <<frameVars, extVars, res, shader, graph, gds, tp>>

worldVars == <<objects, buffers, textures, image_infos, gdsChanged, uploadKey, staging>>
gdsVars == <<buffers, textures, image_infos>>
cbVars == <<cbState, cbCmds>>
secVars == <<secState, secCmds, secBegin>>
syncVars == <<fence, sem, gpuQueue>>
swapVars == <<present_index, presented>>
poolVars == <<queue, scopeThread, spawned, taskState, workerTask, workerPc>>

\* ------------------------------------------------------------------ helpers
Call(op, cb, img) == [op |-> op, cb |-> cb, img |-> img]
Cmd(c, img, list) == [cmd |-> c, img |-> img, list |-> list]

\* the staging buffer of Image::from_image_buffer, as a key beside BufKeys
STAGING == -1

\* the attachments of the primary pass (lines 173-201): the views of the swapchain
\* images and of the depth image, one sample
RenderingInfo == [color |-> "surface_format", depth |-> "depth_image_format", samples |-> 1]
\* lines 261-274: the inheritance info and usage every secondary buffer begins with
InheritanceInfo ==
    [usage |-> "RENDER_PASS_CONTINUE", color |-> "surface_format",
     depth |-> "depth_image_format", samples |-> 1]
NoBegin == [usage |-> "", color |-> "", depth |-> "", samples |-> 0]

NoTasks == [i \in Items |-> "none"]

\* ------------------------------------------------------------------ resource layer state
MemoryLocations == {"CpuToGpu", "GpuToCpu", "GpuOnly"}
Addrs == 0 .. (BufSize - 1)
ByteVals == {0, 1}
\* the allocations of the gpu_allocator: 1 backs the buffer, 2 the image
BUFFER_ALLOCATION == 1
IMAGE_ALLOCATION == 2

NoCall(mem) == [op |-> "", result |-> "", off |-> 0, sz |-> 0, bytes |-> <<>>,
                pre |-> mem, live |-> FALSE, ret |-> 0]

\* Buffer::new and Image::new: one Buffer (kind "buffer") or one Image (kind
\* "image") after construction. allocation and view are 0 for None. mapped
\* tells whether allocation.mapped_ptr() is Some: always in the host-visible
\* locations, up to the memory type the device offers in GpuOnly. mem are the
\* bytes behind the mapped pointer.
NewRes(kind, location, mapped, mem) ==
    [kind |-> kind,
     allocation |-> IF kind = "buffer" THEN BUFFER_ALLOCATION ELSE IMAGE_ALLOCATION,
     location |-> location, mapped |-> mapped, has_been_written_to |-> FALSE,
     mem |-> mem,
     past_end |-> 0,
     view |-> 0,
     created_views |-> 0,
     view_calls |-> 0,
     destroyed_views |-> [v \in 1 .. MaxViews |-> 0],
     freed |-> [a \in {BUFFER_ALLOCATION, IMAGE_ALLOCATION} |-> 0],
     destroyed_handle |-> 0,
     last |-> NoCall(mem)]

\* ------------------------------------------------------------------ shader state
\* set indices and binding indices a shader can reference
SetIndices == 0 .. MaxSetIndex
BindingIndices == {0, 1}

\* no entry at a (set, binding) of spirv_descripor_set_layouts
NoBinding == [ty |-> "none", name |-> <<>>, count |-> [c |-> "One", n |-> 1]]

NoOutput == [returned |-> FALSE, panicked |-> FALSE, created |-> 0,
             set_layouts |-> <<>>, set_layout_info |-> <<>>]

\* the vk::DescriptorType values a layout binding can have
DescriptorTypes ==
    {"UNIFORM_BUFFER", "UNIFORM_TEXEL_BUFFER", "STORAGE_IMAGE", "STORAGE_BUFFER",
     "STORAGE_BUFFER_DYNAMIC", "COMBINED_IMAGE_SAMPLER", "SAMPLED_IMAGE", "SAMPLER",
     "ACCELERATION_STRUCTURE_KHR"}

\* no descriptor pool yet
NoPool == [pool_sizes |-> [ty \in DescriptorTypes |-> 0], max_sets |-> 0, allocated |-> 0]

\* Shader::new before any binding is reflected
InitShader ==
    shader = [phase |-> "new",
              spirv_descripor_set_layouts |-> [s \in SetIndices |-> [b \in BindingIndices |-> NoBinding]],
              out |-> NoOutput,
              pool |-> NoPool]

\* ---- the GlobalDescriptorSet layer
GdsKeys == 1 .. MaxKeys
ImageIds == 1 .. MaxImages
\* the array elements of binding 0 of the descriptor set
Slots == 0 .. (MaxKeys - 1)
NoImage == [state |-> "none", layout |-> "", view |-> FALSE]
NoInfo == [image_layout |-> "", image_view |-> 0, sampler |-> ""]

\* GlobalDescriptorSet::new: empty maps; the descriptor set has no element written
InitGds ==
    gds = [textures |-> [k \in GdsKeys |-> 0],
           images |-> [i \in ImageIds |-> NoImage],
           image_infos |-> [k \in GdsKeys |-> NoInfo],
           set |-> [e \in Slots |-> NoInfo],
           writes |-> <<>>,
           last |-> ""]

\* ---- the command thread pool
\* create_command_thread_pool returns with no entry in the map: the start
\* handler of every pool thread is still to run
InitPool ==
    tp = [thread |-> [t \in Threads |-> "starting"],
          map |-> {},
          frame |-> "idle",
          frames |-> 0,
          body_done |-> FALSE,
          objects_count |-> 0,
          queued |-> 0,
          queue |-> <<>>]

\* SequentialPassSystem::default(): no pass; no frame in progress
InitGraph ==
    graph = [passes |-> <<>>, phase |-> "idle", i |-> 1, log |-> <<>>, nodes |-> 0]

InitRes == res = NewRes("buffer", "CpuToGpu", TRUE, [a \in Addrs |-> 0])

RECURSIVE Ascending(_)
\* the iteration order of a BTreeMap over the keys S
Ascending(S) ==
    IF S = {} THEN <<>>
    ELSE LET m == CHOOSE x \in S : \A y \in S : x <= y IN <<m>> \o Ascending(S \ {m})

\* mutant: the position counted from the highest key
get_texture_index_from_highest(texs, key) ==
    LET order == Ascending(texs) IN
    IF \E i \in 1 .. Len(order) : order[i] = key
      THEN Len(order) - (CHOOSE i \in 1 .. Len(order) : order[i] = key)
      ELSE -1

\* GlobalDescriptorSet::get_texture_index: the position of the key in the
\* iteration of the BTreeMap, -1 for None
get_texture_index(texs, key) ==
    LET order == Ascending(texs) IN
    IF \E i \in 1 .. Len(order) : order[i] = key
      THEN (CHOOSE i \in 1 .. Len(order) : order[i] = key /\ \A j \in 1 .. (i - 1) : order[j] # key) - 1
      ELSE -1

\* MaterialUniform::from_material: the texture indices start as -1
NoIndex == -1
NoFlush == [writes |-> <<>>, dirty |-> FALSE, needed |-> FALSE]
\* counts of creations, frees and destroys stop at 2: one too many is all a
\* check needs
Bump(n) == IF n >= 2 THEN 2 ELSE n + 1

\* the mesh asset handles; stored is the GpuMesh in the map (0: none, else the
\* number of the buffer set), created the buffer sets created for the handle
MeshHandles == {1}
NoMesh == [stored |-> 0, created |-> 0]

\* lines 484-529: a vertex and an index buffer are created and filled, and the
\* GpuMesh replaces the one stored for the handle
insert_mesh(g) == [stored |-> Bump(g.created), created |-> Bump(g.created)]

InitFrame ==
    /\ material_index = [m \in Items |-> NoIndex]
    /\ flush = NoFlush
    /\ meshes = [h \in MeshHandles |-> NoMesh]
    /\ device_error = ""
    /\ pc = "idle"
    /\ rsCb = "draw"
    /\ calls = <<>>
    /\ objects = 0
    /\ buffers = {}
    /\ hostWritten = {}
    /\ textures = {}
    /\ image_infos = {}
    /\ gdsChanged = TRUE
    /\ uploadKey = 0
    /\ staging = "none"
    /\ cbState = [c \in CbNames |-> IF c = "setup" THEN "invalid" ELSE "initial"]
    /\ cbCmds = [c \in CbNames |-> <<>>]
    /\ secState = [t \in Threads |-> "initial"]
    /\ secCmds = [t \in Threads |-> <<>>]
    /\ secBegin = [t \in Threads |-> NoBegin]
    /\ fence = [c \in CbNames |-> TRUE]
    /\ sem = [s \in SemNames |-> FALSE]
    /\ gpuQueue = <<>>
    /\ present_index = -1
    /\ presented = -1
    /\ objects_count = 0
    /\ queue = <<>>
    /\ scopeThread = -1
    /\ spawned = 0
    /\ taskState = NoTasks
    /\ workerTask = [t \in Threads |-> 0]
    /\ workerPc = [t \in Threads |-> "idle"]

\* ------------------------------------------------------------------ extraction
\* mutant: the extraction runs pipelined with the render world, also while the
\* workers of a frame record
extract_camera_uniform_pipelined ==
    /\ pc \in {"idle", "in_scope"}
    /\ buffers' = buffers \cup {CAMERA_HANDLE}
    /\ hostWritten' = {CAMERA_HANDLE}
    /\ gdsChanged' = TRUE
    /\ UNCHANGED <<pc, rsCb, calls, objects, textures, image_infos, uploadKey, staging,
                   cbVars, secVars, syncVars, swapVars, objects_count, poolVars, extVars, res, shader, graph, gds, tp>>

\* extract_camera_uniform: writes the camera uniform, creating its buffer first
\* when GlobalDescriptorSet.buffers has none
extract_camera_uniform ==
    /\ pc = "idle"
    /\ buffers' = buffers \cup {CAMERA_HANDLE}
    /\ hostWritten' = {CAMERA_HANDLE}
    /\ gdsChanged' = TRUE
    /\ UNCHANGED <<pc, rsCb, calls, objects, textures, image_infos, uploadKey, staging,
                   cbVars, secVars, syncVars, swapVars, objects_count, poolVars, extVars, res, shader, graph, gds, tp>>

\* extract_materials for a material without a loaded texture: copy_from_slice of
\* the MaterialUniform into the buffer of the handle (inserted when absent)
extract_materials(m) ==
    /\ pc = "idle"
    /\ buffers' = buffers \cup {m}
    /\ hostWritten' = {m}
    /\ gdsChanged' = TRUE
    /\ material_index' = [material_index EXCEPT ![m] = NoIndex]
    /\ UNCHANGED <<pc, rsCb, calls, objects, textures, image_infos, uploadKey, staging,
                   cbVars, secVars, syncVars, swapVars, objects_count, poolVars,
                   flush, meshes, device_error, res, shader, graph, gds, tp>>

\* a spawned entity seen by the extract schedule: extract_objects inserts it into
\* the render world, extract_materials writes the uniform of its material and
\* extract_meshes creates the buffers of its mesh (every entity has mesh 1)
extract_objects ==
    /\ pc = "idle"
    /\ objects < MaxItems
    /\ objects' = objects + 1
    /\ buffers' = buffers \cup {objects + 1}
    /\ hostWritten' = {objects + 1}
    /\ gdsChanged' = TRUE
    /\ material_index' = [material_index EXCEPT ![objects + 1] = NoIndex]
    /\ meshes' = [meshes EXCEPT ![1] = insert_mesh(@)]
    /\ UNCHANGED <<pc, rsCb, calls, textures, image_infos, uploadKey, staging,
                   cbVars, secVars, syncVars, swapVars, objects_count, poolVars,
                   flush, device_error, res, shader, graph, gds, tp>>

\* extract_meshes for an entity whose Handle<Mesh> changed and that is no draw
\* item (it has no material or no transform)
extract_meshes(h) ==
    /\ pc = "idle"
    /\ meshes' = [meshes EXCEPT ![h] = insert_mesh(@)]
    /\ hostWritten' = {}
    /\ UNCHANGED <<pc, rsCb, calls, worldVars, cbVars, secVars, syncVars, swapVars,
                   objects_count, poolVars, material_index, flush, device_error, res, shader, graph, gds, tp>>

\* Image::from_image_buffer, first half: the staging buffer is created in CpuToGpu
\* memory and filled by copy_from_slice, then copy_buffer_to_texture starts
\* record_submit_commandbuffer on the setup command buffer
from_image_buffer(k) ==
    /\ pc = "idle"
    /\ uploadKey' = k
    /\ staging' = "written"
    /\ hostWritten' = {STAGING}
    /\ rsCb' = "setup"
    /\ pc' = "wait_for_fences"
    /\ UNCHANGED <<calls, objects, buffers, textures, image_infos, gdsChanged,
                   cbVars, secVars, syncVars, swapVars, objects_count, poolVars, extVars, res, shader, graph, gds, tp>>

\* the texture asset a material asset names as its base_color_texture: in this
\* model material m names texture m
base_color_texture(m) == m

\* Image::from_image_buffer, second half, and its caller: the staging buffer is
\* destroyed, the image is inserted into textures and the texture index is
\* written into the uniform buffer of the material that names the texture
register_texture(m) ==
    /\ pc = "upload_finish"
    /\ base_color_texture(m) = uploadKey
    /\ staging' = "none"
    /\ textures' = textures \cup {uploadKey}
    /\ buffers' = buffers \cup {m}
    /\ hostWritten' = {m}
    /\ gdsChanged' = TRUE
    /\ uploadKey' = 0
    /\ rsCb' = "draw"
    /\ pc' = "idle"
    /\ material_index' = [material_index EXCEPT ![m] = get_texture_index(textures', uploadKey)]
    /\ flush' = [flush EXCEPT !.dirty = TRUE]
    /\ UNCHANGED <<calls, objects, image_infos, cbVars, secVars, syncVars, swapVars,
                   objects_count, poolVars, meshes, device_error, res, shader, graph, gds, tp>>

\* ------------------------------------------------------------------ render_system
\* render_system starts: SequentialPassSystem::update is called first
render_system ==
    /\ pc = "idle"
    /\ pc' = "update"
    /\ hostWritten' = {}
    /\ UNCHANGED <<rsCb, calls, worldVars, cbVars, secVars, syncVars, swapVars,
                   objects_count, poolVars, extVars, res, shader, graph, gds, tp>>

\* GlobalDescriptorSet::update_descriptor_set: an image info is cached for every
\* resident texture that has none, then one write per resident texture is issued
update_descriptor_set == image_infos \cup textures

\* lines 164-173: the writes handed to update_descriptor_sets, one per
\* resident texture at the array element of its position
write_desc_sets ==
    LET order == Ascending(textures) IN
    [i \in 1 .. Len(order) |-> [dst_array_element |-> i - 1, key |-> order[i]]]

\* PresentNode::update: returns early unless the resource is_changed
PresentNode_update ==
    /\ pc = "update"
    /\ image_infos' = IF gdsChanged THEN update_descriptor_set ELSE image_infos
    /\ flush' = IF gdsChanged
                  THEN [writes |-> write_desc_sets, dirty |-> FALSE, needed |-> flush.dirty]
                  ELSE flush
    /\ pc' = "run"
    /\ hostWritten' = {}
    /\ UNCHANGED <<rsCb, calls, objects, buffers, textures, gdsChanged, uploadKey, staging,
                   cbVars, secVars, syncVars, swapVars, objects_count, poolVars,
                   material_index, meshes, device_error, res, shader, graph, gds, tp>>

\* mutant: run goes on with an empty draw list
PresentNode_run_no_early_return ==
    /\ pc = "run"
    /\ objects_count' = objects
    /\ pc' = "acquire_next_image"
    /\ hostWritten' = {}
    /\ UNCHANGED <<rsCb, calls, worldVars, cbVars, secVars, syncVars, swapVars,
                   poolVars, extVars, res, shader, graph, gds, tp>>

\* PresentNode::run, lines 115-124: counts the draw list, returns Ok when empty
PresentNode_run ==
    /\ pc = "run"
    /\ objects_count' = objects
    /\ pc' = IF objects = 0 THEN "run_return" ELSE "acquire_next_image"
    /\ hostWritten' = {}
    /\ UNCHANGED <<rsCb, calls, worldVars, cbVars, secVars, syncVars, swapVars,
                   poolVars, extVars, res, shader, graph, gds, tp>>

\* acquire_next_image: blocks until an image is available, which it signals on
\* present_complete_semaphore
acquire_next_image ==
    /\ pc = "acquire_next_image"
    /\ \E i \in SwapImages : present_index' = i
    /\ sem' = [sem EXCEPT !["present_complete"] = TRUE]
    /\ calls' = Append(calls, Call("acquire_next_image", "", present_index'))
    /\ rsCb' = "draw"
    /\ pc' = "wait_for_fences"
    /\ hostWritten' = {}
    /\ UNCHANGED <<worldVars, cbVars, secVars, fence, gpuQueue, presented,
                   objects_count, poolVars, extVars, res, shader, graph, gds, tp>>

\* ------------------------------------------------------------------ record_submit_commandbuffer
Logged(op) == IF rsCb = "draw" THEN Append(calls, Call(op, rsCb, -1)) ELSE calls

\* the swapchain image the recorded commands of the draw buffer render to
TargetOf(cmds) == IF cmds = <<>> THEN -1 ELSE cmds[1].img

\* wait_for_fences on the reuse fence, timeout u64::MAX: returns once it is signaled
wait_for_fences ==
    /\ pc = "wait_for_fences"
    /\ fence[rsCb]
    /\ calls' = Logged("wait_for_fences")
    /\ pc' = "reset_fences"
    /\ hostWritten' = {}
    /\ UNCHANGED <<rsCb, worldVars, cbVars, secVars, syncVars, swapVars,
                   objects_count, poolVars, extVars, res, shader, graph, gds, tp>>

reset_fences ==
    /\ pc = "reset_fences"
    /\ fence' = [fence EXCEPT ![rsCb] = FALSE]
    /\ calls' = Logged("reset_fences")
    /\ pc' = "reset_command_buffer"
    /\ hostWritten' = {}
    /\ UNCHANGED <<rsCb, worldVars, cbVars, secVars, sem, gpuQueue, swapVars,
                   objects_count, poolVars, extVars, res, shader, graph, gds, tp>>

reset_command_buffer ==
    /\ pc = "reset_command_buffer"
    /\ cbState' = [cbState EXCEPT ![rsCb] = "initial"]
    /\ cbCmds' = [cbCmds EXCEPT ![rsCb] = <<>>]
    /\ calls' = Logged("reset_command_buffer")
    /\ pc' = "begin_command_buffer"
    /\ hostWritten' = {}
    /\ UNCHANGED <<rsCb, worldVars, secVars, syncVars, swapVars,
                   objects_count, poolVars, extVars, res, shader, graph, gds, tp>>

\* begin_command_buffer, then the callback f starts
begin_command_buffer ==
    /\ pc = "begin_command_buffer"
    /\ cbState' = [cbState EXCEPT ![rsCb] = "recording"]
    /\ calls' = Logged("begin_command_buffer")
    /\ pc' = IF rsCb = "draw" THEN "begin_rendering" ELSE "copy_buffer_to_image"
    /\ hostWritten' = {}
    /\ UNCHANGED <<rsCb, cbCmds, worldVars, secVars, syncVars, swapVars,
                   objects_count, poolVars, extVars, res, shader, graph, gds, tp>>

\* the callback of copy_buffer_to_texture: the barrier UNDEFINED ->
\* TRANSFER_DST_OPTIMAL and the copy of the staging buffer into the image
copy_buffer_to_texture ==
    /\ pc = "copy_buffer_to_image"
    /\ cbCmds' = [cbCmds EXCEPT ![rsCb] =
                    @ \o <<Cmd("barrier_transfer_dst", uploadKey, <<>>),
                           Cmd("copy_buffer_to_image", uploadKey, <<>>)>>]
    /\ pc' = "end_command_buffer"
    /\ hostWritten' = {}
    /\ UNCHANGED <<rsCb, calls, cbState, worldVars, secVars, syncVars, swapVars,
                   objects_count, poolVars, extVars, res, shader, graph, gds, tp>>

end_command_buffer ==
    /\ pc = "end_command_buffer"
    /\ cbState' = [cbState EXCEPT ![rsCb] = "executable"]
    /\ calls' = Logged("end_command_buffer")
    /\ pc' = "queue_submit"
    /\ hostWritten' = {}
    /\ UNCHANGED <<rsCb, cbCmds, worldVars, secVars, syncVars, swapVars,
                   objects_count, poolVars, extVars, res, shader, graph, gds, tp>>

\* the semaphores the callers pass: PresentNode::run waits on present_complete and
\* signals rendering_complete, copy_buffer_to_texture passes none
wait_semaphores(cb) == IF cb = "draw" THEN {"present_complete"} ELSE {}
signal_semaphores(cb) == IF cb = "draw" THEN {"rendering_complete"} ELSE {}

\* the secondary command buffers listed by the execute-commands calls of a buffer
ExecutedBy(cmds) ==
    {t \in Threads : \E j \in 1 .. Len(cmds) :
        cmds[j].cmd = "execute_commands" /\ \E q \in 1 .. Len(cmds[j].list) : cmds[j].list[q] = t}

ItemsOf(t) == {secCmds[t][j] : j \in 1 .. Len(secCmds[t])}

\* the host-visible buffers a submission reads: the staging buffer of an upload,
\* the camera and the materials of the recorded draws of a frame
ReadBy(cb) ==
    IF cb = "setup" THEN {STAGING}
    ELSE {CAMERA_HANDLE} \cup UNION {ItemsOf(t) : t \in ExecutedBy(cbCmds[cb])}

queue_submit ==
    /\ pc = "queue_submit"
    /\ gpuQueue' = Append(gpuQueue,
            [cb |-> rsCb, fence |-> rsCb, wait |-> wait_semaphores(rsCb),
             signal |-> signal_semaphores(rsCb), reads |-> ReadBy(rsCb),
             secs |-> IF rsCb = "draw" THEN ExecutedBy(cbCmds[rsCb]) ELSE {}])
    /\ cbState' = [cbState EXCEPT ![rsCb] = "pending"]
    /\ secState' = [t \in Threads |->
            IF rsCb = "draw" /\ t \in ExecutedBy(cbCmds[rsCb]) THEN "pending" ELSE secState[t]]
    /\ calls' = IF rsCb = "draw"
                THEN Append(calls, Call("queue_submit", rsCb, TargetOf(cbCmds[rsCb])))
                ELSE calls
    /\ pc' = "queue_wait_idle"
    /\ hostWritten' = {}
    /\ UNCHANGED <<rsCb, cbCmds, secCmds, secBegin, worldVars, fence, sem, swapVars,
                   objects_count, poolVars, extVars, res, shader, graph, gds, tp>>

\* mutant: record_submit_commandbuffer returns without waiting for the queue
queue_wait_idle_skipped ==
    /\ pc = "queue_wait_idle"
    /\ calls' = Logged("queue_wait_idle")
    /\ pc' = IF rsCb = "draw" THEN "queue_present" ELSE "upload_finish"
    /\ hostWritten' = {}
    /\ UNCHANGED <<rsCb, worldVars, cbVars, secVars, syncVars, swapVars,
                   objects_count, poolVars, extVars, res, shader, graph, gds, tp>>

\* queue_wait_idle: returns once the queue has completed every submission
queue_wait_idle ==
    /\ pc = "queue_wait_idle"
    /\ gpuQueue = <<>>
    /\ calls' = Logged("queue_wait_idle")
    /\ pc' = IF rsCb = "draw" THEN "queue_present" ELSE "upload_finish"
    /\ hostWritten' = {}
    /\ UNCHANGED <<rsCb, worldVars, cbVars, secVars, syncVars, swapVars,
                   objects_count, poolVars, extVars, res, shader, graph, gds, tp>>

\* the GPU completes the oldest submission once its wait semaphores are signaled:
\* it signals the fence and the signal semaphores; a ONE_TIME_SUBMIT primary
\* buffer becomes invalid, the secondary buffers it executed executable again.
\* Nothing reads what a completed buffer holds (the next begin resets it), so
\* the model drops the commands here
GpuComplete ==
    /\ gpuQueue # <<>>
    /\ LET h == Head(gpuQueue) IN
        /\ \A s \in h.wait : sem[s]
        /\ sem' = [s \in SemNames |->
                IF s \in h.signal THEN TRUE ELSE IF s \in h.wait THEN FALSE ELSE sem[s]]
        /\ fence' = [fence EXCEPT ![h.fence] = TRUE]
        /\ cbState' = [cbState EXCEPT ![h.cb] = "invalid"]
        /\ cbCmds' = [cbCmds EXCEPT ![h.cb] = <<>>]
        /\ secState' = [t \in Threads |-> IF t \in h.secs THEN "executable" ELSE secState[t]]
        /\ secCmds' = [t \in Threads |-> IF t \in h.secs THEN <<>> ELSE secCmds[t]]
    /\ gpuQueue' = Tail(gpuQueue)
    /\ hostWritten' = {}
    /\ UNCHANGED <<pc, rsCb, calls, worldVars, swapVars, secBegin,
                   objects_count, poolVars, extVars, res, shader, graph, gds, tp>>

\* ------------------------------------------------------------------ PresentNode::run, the callback
\* lines 149-256: the barrier UNDEFINED -> ATTACHMENT_OPTIMAL on the acquired
\* image, cmd_begin_rendering with CONTENTS_SECONDARY_COMMAND_BUFFERS, the
\* descriptor sets, the dynamic state and the shaders
begin_rendering ==
    /\ pc = "begin_rendering"
    /\ cbCmds' = [cbCmds EXCEPT !["draw"] =
                    @ \o <<Cmd("barrier_attachment", present_index, <<>>),
                           Cmd("begin_rendering", present_index, <<>>),
                           Cmd("bind_descriptor_sets", -1, <<>>),
                           Cmd("bind_shaders", -1, <<>>)>>]
    /\ pc' = "begin_secondaries"
    /\ hostWritten' = {}
    /\ UNCHANGED <<rsCb, calls, cbState, worldVars, secVars, syncVars, swapVars,
                   objects_count, poolVars, extVars, res, shader, graph, gds, tp>>

\* lines 258-279: begin_command_buffer with RENDER_PASS_CONTINUE on every buffer
\* of threaded_command_buffers, which resets what the buffer held
begin_secondaries ==
    /\ pc = "begin_secondaries"
    /\ secState' = [t \in Threads |-> "recording"]
    /\ secCmds' = [t \in Threads |-> <<>>]
    /\ secBegin' = [t \in Threads |-> InheritanceInfo]
    /\ pc' = "queue_new"
    /\ hostWritten' = {}
    /\ UNCHANGED <<rsCb, calls, cbVars, worldVars, syncVars, swapVars,
                   objects_count, poolVars, extVars, res, shader, graph, gds, tp>>

\* lines 281-286: ArrayQueue::new(objects_count) and the lookup of the camera
\* buffer, whose unwrap panics when no camera was extracted
queue_new ==
    /\ pc = "queue_new"
    /\ queue' = <<>>
    /\ pc' = IF CAMERA_HANDLE \notin buffers THEN "panicked" ELSE "scope"
    /\ hostWritten' = {}
    /\ UNCHANGED <<rsCb, calls, cbVars, secVars, worldVars, syncVars, swapVars,
                   objects_count, scopeThread, spawned, taskState, workerTask, workerPc, extVars, res, shader, graph, gds, tp>>

\* command_thread_pool.scope called from outside the pool: the scope body runs on
\* one of the pool's threads while the frame thread blocks
scope ==
    /\ pc = "scope"
    /\ \E t \in Threads : scopeThread' = t
    /\ spawned' = 0
    /\ taskState' = NoTasks
    /\ pc' = "in_scope"
    /\ hostWritten' = {}
    /\ UNCHANGED <<rsCb, calls, cbVars, secVars, worldVars, syncVars, swapVars,
                   objects_count, queue, workerTask, workerPc, extVars, res, shader, graph, gds, tp>>

\* the scope body: one scope.spawn per item of the draw list, in query order
spawn ==
    /\ pc = "in_scope"
    /\ spawned < objects_count
    /\ spawned' = spawned + 1
    /\ taskState' = [taskState EXCEPT ![spawned + 1] = "queued"]
    /\ hostWritten' = {}
    /\ UNCHANGED <<pc, rsCb, calls, cbVars, secVars, worldVars, syncVars, swapVars,
                   objects_count, queue, scopeThread, workerTask, workerPc, extVars, res, shader, graph, gds, tp>>

\* a pool thread may take a task when it runs nothing: the thread of the scope
\* body only once the body has returned
CanRun(t) == workerPc[t] = "idle" /\ (t # scopeThread \/ spawned = objects_count)

\* lines 292-295: an idle pool thread takes a spawned task; the task reads
\* current_thread_index and looks its command buffer up in the map
task_start(t, i) ==
    /\ pc = "in_scope"
    /\ taskState[i] = "queued"
    /\ CanRun(t)
    /\ taskState' = [taskState EXCEPT ![i] = "running"]
    /\ workerTask' = [workerTask EXCEPT ![t] = i]
    /\ workerPc' = [workerPc EXCEPT ![t] = "record"]
    /\ hostWritten' = {}
    /\ UNCHANGED <<pc, rsCb, calls, cbVars, secVars, worldVars, syncVars, swapVars,
                   objects_count, queue, scopeThread, spawned, extVars, res, shader, graph, gds, tp>>

\* mutant: every task records into the buffer of thread 0
CommandBufferOf_shared(t) == 0

\* the secondary command buffer a task records into
CommandBufferOf(t) == t

\* lines 297-341: push constants, topology, vertex and index buffers and the draw
\* of the item go into the command buffer of the thread
task_record(t) ==
    /\ workerPc[t] = "record"
    /\ secCmds' = [secCmds EXCEPT ![CommandBufferOf(t)] = Append(@, workerTask[t])]
    /\ workerPc' = [workerPc EXCEPT ![t] = "push"]
    /\ hostWritten' = {}
    /\ UNCHANGED <<pc, rsCb, calls, cbVars, secState, secBegin, worldVars, syncVars, swapVars,
                   objects_count, queue, scopeThread, spawned, taskState, workerTask, extVars, res, shader, graph, gds, tp>>

\* line 342: queue.push(thread_index).unwrap(), which panics on a full queue
task_push(t) ==
    /\ workerPc[t] = "push"
    /\ IF Len(queue) < objects_count
         THEN queue' = Append(queue, t) /\ pc' = pc
         ELSE queue' = queue /\ pc' = "panicked"
    /\ taskState' = [taskState EXCEPT ![workerTask[t]] = "done"]
    /\ workerTask' = [workerTask EXCEPT ![t] = 0]
    /\ workerPc' = [workerPc EXCEPT ![t] = "idle"]
    /\ hostWritten' = {}
    /\ UNCHANGED <<rsCb, calls, cbVars, secVars, worldVars, syncVars, swapVars,
                   objects_count, scopeThread, spawned, extVars, res, shader, graph, gds, tp>>

\* mutant: scope returns once the body has spawned the tasks
join_early ==
    /\ pc = "in_scope"
    /\ spawned = objects_count
    /\ scopeThread' = -1
    /\ spawned' = 0
    /\ taskState' = NoTasks
    /\ pc' = "end_secondaries"
    /\ hostWritten' = {}
    /\ UNCHANGED <<rsCb, calls, cbVars, secVars, worldVars, syncVars, swapVars,
                   objects_count, queue, workerTask, workerPc, extVars, res, shader, graph, gds, tp>>

\* scope returns to the frame thread once the body and every spawned task ended
join ==
    /\ pc = "in_scope"
    /\ spawned = objects_count
    /\ \A i \in 1 .. objects_count : taskState[i] = "done"
    /\ scopeThread' = -1
    /\ spawned' = 0
    /\ taskState' = NoTasks
    /\ pc' = "end_secondaries"
    /\ hostWritten' = {}
    /\ UNCHANGED <<rsCb, calls, cbVars, secVars, worldVars, syncVars, swapVars,
                   objects_count, queue, workerTask, workerPc, extVars, res, shader, graph, gds, tp>>

\* mutant: only the buffers whose thread pushed to the queue are ended
end_secondaries_touched_only ==
    /\ pc = "end_secondaries"
    /\ secState' = [t \in Threads |->
            IF \E j \in 1 .. Len(queue) : queue[j] = t THEN "executable" ELSE secState[t]]
    /\ pc' = "execute_commands"
    /\ hostWritten' = {}
    /\ UNCHANGED <<rsCb, calls, cbVars, secCmds, secBegin, worldVars, syncVars, swapVars,
                   objects_count, poolVars, extVars, res, shader, graph, gds, tp>>

\* lines 347-351: end_command_buffer on every buffer of threaded_command_buffers
end_secondaries ==
    /\ pc = "end_secondaries"
    /\ secState' = [t \in Threads |-> "executable"]
    /\ pc' = "execute_commands"
    /\ hostWritten' = {}
    /\ UNCHANGED <<rsCb, calls, cbVars, secCmds, secBegin, worldVars, syncVars, swapVars,
                   objects_count, poolVars, extVars, res, shader, graph, gds, tp>>

Range(f) == {f[j] : j \in DOMAIN f}
Orders(S) == {f \in [1 .. Cardinality(S) -> S] : Range(f) = S}

\* mutant: the filter on the queue is missing
Touched_unfiltered(q) == Threads

\* lines 357-361: the buffers of the map whose thread index the queue contains
Touched(q) == {t \in Threads : t \in Range(q)}

\* lines 353-362: one cmd_execute_commands with the filtered buffers, in the
\* iteration order of the HashMap
execute_commands ==
    /\ pc = "execute_commands"
    /\ \E list \in Orders(Touched(queue)) :
         cbCmds' = [cbCmds EXCEPT !["draw"] = Append(@, Cmd("execute_commands", -1, list))]
    /\ pc' = "end_rendering"
    /\ hostWritten' = {}
    /\ UNCHANGED <<rsCb, calls, cbState, secVars, worldVars, syncVars, swapVars,
                   objects_count, poolVars, extVars, res, shader, graph, gds, tp>>

\* mutant: the barrier to the present layout is recorded inside the render pass
end_rendering_barrier_first ==
    /\ pc = "end_rendering"
    /\ cbCmds' = [cbCmds EXCEPT !["draw"] =
                    @ \o <<Cmd("barrier_present_src", present_index, <<>>),
                           Cmd("end_rendering", -1, <<>>)>>]
    /\ queue' = <<>>
    /\ pc' = "end_command_buffer"
    /\ hostWritten' = {}
    /\ UNCHANGED <<rsCb, calls, cbState, secVars, worldVars, syncVars, swapVars,
                   objects_count, scopeThread, spawned, taskState, workerTask, workerPc, extVars, res, shader, graph, gds, tp>>

\* lines 364-390: cmd_end_rendering and the barrier ATTACHMENT_OPTIMAL ->
\* PRESENT_SRC_KHR on the acquired image; the callback returns and drops the queue
end_rendering ==
    /\ pc = "end_rendering"
    /\ cbCmds' = [cbCmds EXCEPT !["draw"] =
                    @ \o <<Cmd("end_rendering", -1, <<>>),
                           Cmd("barrier_present_src", present_index, <<>>)>>]
    /\ queue' = <<>>
    /\ pc' = "end_command_buffer"
    /\ hostWritten' = {}
    /\ UNCHANGED <<rsCb, calls, cbState, secVars, worldVars, syncVars, swapVars,
                   objects_count, scopeThread, spawned, taskState, workerTask, workerPc, extVars, res, shader, graph, gds, tp>>

\* mutant: the present names another image than the acquired one
queue_present_other_image ==
    /\ pc = "queue_present"
    /\ presented' = (present_index + 1) % NumImages
    /\ sem' = [sem EXCEPT !["rendering_complete"] = FALSE]
    /\ calls' = Append(calls, Call("queue_present", "", presented'))
    /\ pc' = "run_return"
    /\ hostWritten' = {}
    /\ UNCHANGED <<rsCb, worldVars, cbVars, secVars, fence, gpuQueue, present_index,
                   objects_count, poolVars, extVars, res, shader, graph, gds, tp>>

\* lines 394-408: queue_present of the acquired image, waiting on
\* rendering_complete_semaphore
queue_present ==
    /\ pc = "queue_present"
    /\ presented' = present_index
    /\ sem' = [sem EXCEPT !["rendering_complete"] = FALSE]
    /\ calls' = Append(calls, Call("queue_present", "", present_index))
    /\ pc' = "run_return"
    /\ hostWritten' = {}
    /\ UNCHANGED <<rsCb, worldVars, cbVars, secVars, fence, gpuQueue, present_index,
                   objects_count, poolVars, extVars, res, shader, graph, gds, tp>>

\* run returned Ok and its locals are dropped; render_system ends, and with it
\* the window in which the GlobalDescriptorSet counts as changed
render_system_end ==
    /\ pc = "run_return"
    /\ gdsChanged' = FALSE
    /\ calls' = <<>>
    /\ present_index' = -1
    /\ presented' = -1
    /\ objects_count' = 0
    /\ pc' = "idle"
    /\ hostWritten' = {}
    /\ flush' = [flush EXCEPT !.writes = <<>>, !.needed = FALSE]
    /\ UNCHANGED <<rsCb, objects, buffers, textures, image_infos, uploadKey, staging,
                   cbVars, secVars, syncVars, poolVars,
                   material_index, meshes, device_error, res, shader, graph, gds, tp>>

\* the steps of the frame thread that are a device call with a Result
FallibleCalls ==
    {"acquire_next_image", "wait_for_fences", "reset_fences", "reset_command_buffer",
     "begin_command_buffer", "begin_secondaries", "end_secondaries", "end_command_buffer",
     "queue_submit", "queue_wait_idle", "queue_present"}

\* mutant: the error of the device call is returned by run and the frame ends
device_call_fails_returns_err ==
    /\ pc \in FallibleCalls
    /\ device_error' = pc
    /\ pc' = "run_return"
    /\ hostWritten' = {}
    /\ UNCHANGED <<rsCb, calls, worldVars, cbVars, secVars, syncVars, swapVars,
                   objects_count, poolVars, material_index, flush, meshes, res, shader, graph, gds, tp>>

\* the device call the frame thread is about to make returns an error: the
\* unwrap or expect on the Result panics
device_call_fails ==
    /\ pc \in FallibleCalls
    /\ device_error' = pc
    /\ pc' = "panicked"
    /\ hostWritten' = {}
    /\ UNCHANGED <<rsCb, calls, worldVars, cbVars, secVars, syncVars, swapVars,
                   objects_count, poolVars, material_index, flush, meshes, res, shader, graph, gds, tp>>

\* ------------------------------------------------------------------ the frame engine
Init == InitFrame /\ InitRes /\ InitShader /\ InitGraph /\ InitGds /\ InitPool

Next ==
    \/ extract_camera_uniform
    \/ \E m \in Items : extract_materials(m)
    \/ extract_objects
    \/ \E k \in TexKeys : from_image_buffer(k)
    \/ \E m \in Items : register_texture(m)
    \/ render_system
    \/ PresentNode_update
    \/ PresentNode_run
    \/ acquire_next_image
    \/ wait_for_fences
    \/ reset_fences
    \/ reset_command_buffer
    \/ begin_command_buffer
    \/ copy_buffer_to_texture
    \/ end_command_buffer
    \/ queue_submit
    \/ queue_wait_idle
    \/ GpuComplete
    \/ begin_rendering
    \/ begin_secondaries
    \/ queue_new
    \/ scope
    \/ spawn
    \/ \E t \in Threads, i \in Items : task_start(t, i)
    \/ \E t \in Threads : task_record(t)
    \/ \E t \in Threads : task_push(t)
    \/ join
    \/ end_secondaries
    \/ execute_commands
    \/ end_rendering
    \/ queue_present
    \/ render_system_end
    \/ device_call_fails

Spec == Init /\ [][Next]_vars

\* the render world without draw items: extraction of cameras, materials,
\* meshes and textures (every material's texture can load), and frames whose
\* run returns at once
NextWorld ==
    \/ extract_camera_uniform
    \/ \E m \in Items : extract_materials(m)
    \/ \E h \in MeshHandles : extract_meshes(h)
    \/ \E m \in Items : from_image_buffer(base_color_texture(m))
    \/ \E m \in Items : register_texture(m)
    \/ wait_for_fences
    \/ reset_fences
    \/ reset_command_buffer
    \/ begin_command_buffer
    \/ copy_buffer_to_texture
    \/ end_command_buffer
    \/ queue_submit
    \/ queue_wait_idle
    \/ GpuComplete
    \/ render_system
    \/ PresentNode_update
    \/ PresentNode_run
    \/ render_system_end

SpecWorld == Init /\ [][NextWorld]_vars

\* ------------------------------------------------------------------ claims on the frame engine
IsPrefix(a, b) == Len(a) <= Len(b) /\ \A j \in 1 .. Len(a) : a[j] = b[j]

\* the device calls of one frame that draws to image i, in the order of the code
ExpectedCalls(i) ==
    <<Call("acquire_next_image", "", i), Call("wait_for_fences", "draw", -1),
      Call("reset_fences", "draw", -1), Call("reset_command_buffer", "draw", -1),
      Call("begin_command_buffer", "draw", -1), Call("end_command_buffer", "draw", -1),
      Call("queue_submit", "draw", i), Call("queue_wait_idle", "draw", -1),
      Call("queue_present", "", i)>>

\* the list arguments of the execute-commands calls recorded in the draw buffer
ExecuteLists ==
    {cbCmds["draw"][j].list : j \in {q \in 1 .. Len(cbCmds["draw"]) :
                                        cbCmds["draw"][q].cmd = "execute_commands"}}
ExecuteCalls ==
    Cardinality({q \in 1 .. Len(cbCmds["draw"]) : cbCmds["draw"][q].cmd = "execute_commands"})

\* the secondary buffers that hold a draw of this frame
Recorded == {t \in Threads : secCmds[t] # <<>>}

\* how often item i is drawn over all secondary buffers
Draws(i) == Cardinality({<<t, j>> \in Threads \X (1 .. MaxItems) :
                            j <= Len(secCmds[t]) /\ secCmds[t][j] = i})

Working == {t \in Threads : workerPc[t] # "idle"}

\* C1: at most one submission is in flight; while a submission is pending its
\* command buffers stay pending (not reset, not re-recorded) and no buffer it
\* reads is written by copy_from_slice; no command buffer is recorded while the
\* GPU still works on a submission
C1_OneSubmissionInFlight ==
    /\ Len(gpuQueue) <= 1
    /\ \A j \in 1 .. Len(gpuQueue) :
         /\ cbState[gpuQueue[j].cb] = "pending"
         /\ \A t \in gpuQueue[j].secs : secState[t] = "pending"
         /\ gpuQueue[j].reads \cap hostWritten = {}
    /\ (\E c \in CbNames : cbState[c] = "recording") => gpuQueue = <<>>
    /\ (\E t \in Threads : secState[t] = "recording") => gpuQueue = <<>>

\* a draw submission that reads the camera and a material is pending in a frame
\* that follows a drawn frame (nothing was extracted since render_system ended)
C1_Witness ==
    /\ gpuQueue # <<>>
    /\ gpuQueue[1].cb = "draw"
    /\ {CAMERA_HANDLE, 1} \subseteq gpuQueue[1].reads
    /\ ~gdsChanged

\* C2: the device calls of a frame that draws are made in the order acquire,
\* wait on the fence, reset the fence, reset the buffer, begin, (record), end,
\* submit, present; commands are recorded only between begin and end; the
\* submission uses the reset draw fence, waits on present_complete and signals
\* rendering_complete; the present names the image that was acquired and that
\* the submitted commands render to, and rendering_complete is signaled by then
C2_FrameOrder ==
    /\ calls # <<>> => IsPrefix(calls, ExpectedCalls(present_index))
    /\ objects_count = 0 => calls = <<>>
    /\ cbState["draw"] = "recording" =>
         calls # <<>> /\ calls[Len(calls)].op = "begin_command_buffer"
    /\ (Len(calls) >= 6 /\ cbState["draw"] \in {"executable", "pending"}) =>
         /\ ExecuteCalls = 1
         /\ TargetOf(cbCmds["draw"]) = present_index
    /\ \A j \in 1 .. Len(gpuQueue) : gpuQueue[j].cb = "draw" =>
         /\ gpuQueue[j].fence = "draw" /\ ~fence["draw"]
         /\ gpuQueue[j].wait = {"present_complete"}
         /\ gpuQueue[j].signal = {"rendering_complete"}
    /\ pc = "queue_present" => sem["rendering_complete"]
    /\ presented # -1 => presented = present_index /\ calls = ExpectedCalls(present_index)

\* a frame has queued its present
C2_Witness == pc = "run_return" /\ presented >= 0 /\ calls = ExpectedCalls(presented)

\* C3: once the frame has recorded its one execute-commands call, the call lists
\* each secondary buffer whose thread index is in the queue exactly once, and
\* these are the buffers that hold a draw of the frame
C3_ExecuteListsPushed ==
    pc = "end_rendering" =>
        /\ ExecuteCalls = 1
        /\ \A L \in ExecuteLists :
             /\ Range(L) = Range(queue)
             /\ Len(L) = Cardinality(Range(L))
             /\ Range(L) = Recorded

\* a worker recorded two items into its buffer, another buffer holds no draw
C3_Witness ==
    /\ pc = "end_rendering"
    /\ \E t \in Threads : Len(secCmds[t]) >= 2
    /\ \E t \in Threads : secCmds[t] = <<>>

CeilDiv(n, c) == (n + c - 1) \div c
Min(a, b) == IF a <= b THEN a ELSE b

C5_State ==
    /\ \A t \in Working, u \in Working :
         t # u => CommandBufferOf(t) # CommandBufferOf(u) /\ workerTask[t] # workerTask[u]
    /\ \A i \in Items : Draws(i) <= 1
    /\ \A t \in Threads : ItemsOf(t) \subseteq 1 .. objects_count
    /\ pc = "end_secondaries" => \A i \in 1 .. objects_count : Draws(i) = 1

\* C5, in every step: a draw is appended only to the buffer of the thread that
\* runs the item, by that thread
C5_Step ==
    \A b \in Threads :
        Len(secCmds'[b]) > Len(secCmds[b]) =>
            /\ workerPc[b] = "record"
            /\ secCmds'[b] = Append(secCmds[b], workerTask[b])
            /\ \A u \in Threads \ {b} : secCmds'[u] = secCmds[u]

\* C5: each worker records only into the buffer of its thread index, never two
\* tasks into one buffer at a time, and every item is recorded exactly once
C5_WorkersOwnBuffers == []C5_State /\ [][C5_Step]_vars

\* both threads of the pool are recording at the same time
C5_Witness == workerPc[0] = "record" /\ workerPc[1] = "record"

\* C6, in every state: a working thread's buffer is begun (RENDER_PASS_CONTINUE,
\* attachment formats and samples of the primary pass) and not ended; outside the
\* scope, so at the end of the buffers, the execute call and the submission, no
\* task is queued or running
C6_State ==
    /\ \A t \in Working :
         /\ secState[CommandBufferOf(t)] = "recording"
         /\ secBegin[CommandBufferOf(t)].usage = "RENDER_PASS_CONTINUE"
         /\ secBegin[CommandBufferOf(t)].color = RenderingInfo.color
         /\ secBegin[CommandBufferOf(t)].depth = RenderingInfo.depth
         /\ secBegin[CommandBufferOf(t)].samples = RenderingInfo.samples
    /\ pc # "in_scope" => Working = {} /\ taskState = NoTasks

\* C6, in every step: a buffer that receives a command is recording
C6_Step ==
    \A b \in Threads :
        Len(secCmds'[b]) > Len(secCmds[b]) =>
            secState[b] = "recording" /\ secState'[b] = "recording"

\* C6: workers record between the begin and the end of their buffer, and the
\* end, the execute call and the submission come after the join
C6_RecordBetweenBeginAndEnd == []C6_State /\ [][C6_Step]_vars

\* a worker has recorded a draw into its begun buffer and is about to push
C6_Witness ==
    /\ pc = "in_scope"
    /\ \E t \in Threads : workerPc[t] = "push" /\ secCmds[t] # <<>> /\ secState[t] = "recording"

\* a step that mutates the GlobalDescriptorSet or writes one of its buffers
Mutates == gdsVars' # gdsVars \/ hostWritten' \cap BufKeys # {}

\* C7: the GlobalDescriptorSet is mutated only by the extraction and by update,
\* before run starts; no step taken while the workers of a frame run mutates it
C7_Step ==
    /\ Mutates => pc \in {"idle", "upload_finish", "update"}
    /\ (pc = "in_scope" \/ Working # {}) => ~Mutates
C7_GdsStableDuringRun == [][C7_Step]_vars

\* a worker records while the set holds a camera buffer and a flushed texture
C7_Witness ==
    /\ pc = "in_scope"
    /\ workerPc[0] = "record"
    /\ CAMERA_HANDLE \in buffers
    /\ textures # {}
    /\ image_infos = textures

\* ------------------------------------------------------------------ resource layer
Returned(op, result) ==
    [op |-> op, result |-> result, off |-> 0, sz |-> 0, bytes |-> <<>>,
     pre |-> res.mem, live |-> res.allocation # 0, ret |-> 0]

\* mutant: destroy reads the allocation and leaves it in the structure
Buffer_destroy_keeps_allocation ==
    /\ res.kind = "buffer"
    /\ IF res.allocation = 0
         THEN res' = [res EXCEPT !.last = Returned("Buffer::destroy", "panic")]
         ELSE res' = [res EXCEPT
                        !.freed[BUFFER_ALLOCATION] = Bump(@),
                        !.destroyed_handle = Bump(@),
                        !.last = Returned("Buffer::destroy", "ok")]
    /\ UNCHANGED <<frameVars, shader, graph, gds, tp>>

\* Buffer::destroy: allocation.take().unwrap() panics on None before anything is
\* freed; else the allocator frees the allocation and the buffer is destroyed
Buffer_destroy ==
    /\ res.kind = "buffer"
    /\ IF res.allocation = 0
         THEN res' = [res EXCEPT !.last = Returned("Buffer::destroy", "panic")]
         ELSE res' = [res EXCEPT
                        !.allocation = 0,
                        !.freed[BUFFER_ALLOCATION] = Bump(@),
                        !.destroyed_handle = Bump(@),
                        !.last = Returned("Buffer::destroy", "ok")]
    /\ UNCHANGED <<frameVars, shader, graph, gds, tp>>

\* the alignment of an element type of sz bytes (u8, u16, [u8; 3], ...)
AlignOf(sz) == IF sz % 2 = 0 THEN 2 ELSE 1

\* mutant: a buffer without a mapped pointer is written all the same
mapped_ptr_always(r) == TRUE

\* allocation.mapped_ptr().is_some()
mapped_ptr(r) == r.mapped

\* mutant: the offset is dropped and the slice lands at the start
mapped_slice_at_start(mem, bytes, off) ==
    [a \in Addrs |-> IF a < Len(bytes) THEN bytes[a + 1] ELSE mem[a]]

\* lines 92-95: the bytes of the slice are copied to ptr.add(offset)
mapped_slice(mem, bytes, off) ==
    [a \in Addrs |-> IF off <= a /\ a < off + Len(bytes) THEN bytes[a - off + 1] ELSE mem[a]]

Copied(bytes, off, sz, result) ==
    [op |-> "copy_from_slice", result |-> result, off |-> off, sz |-> sz, bytes |-> bytes,
     pre |-> res.mem, live |-> res.allocation # 0, ret |-> 0]

\* the bytes of a slice at byte offset off that lie past the end of the buffer
PastEnd(bytes, off) == IF off + Len(bytes) > BufSize THEN off + Len(bytes) - BufSize ELSE 0

\* Buffer::copy_from_slice of a slice of elements of sz bytes (bytes are its
\* bytes) at byte offset off. It panics on a taken allocation and on a missing
\* mapped pointer. The size assertion of line 89 is commented out: the copy
\* starts at ptr.add(offset) whatever the size of the buffer, and the bytes
\* past the end go to the memory behind the buffer (past_end counts them).
\* That, and a pointer that is misaligned for the element type, is undefined
\* behaviour of from_raw_parts_mut: the build copies, or aborts on the
\* alignment precondition, or faults in the copy past the end after the bytes
\* inside the buffer are written.
copy_from_slice(bytes, off, sz) ==
    /\ res.kind = "buffer"
    /\ Len(bytes) % sz = 0
    /\ \/ /\ res.allocation # 0 /\ mapped_ptr(res)
          /\ res' = [res EXCEPT !.mem = mapped_slice(@, bytes, off),
                                !.past_end = PastEnd(bytes, off),
                                !.has_been_written_to = TRUE,
                                !.last = Copied(bytes, off, sz, "ok")]
       \/ /\ res.allocation # 0 /\ mapped_ptr(res) /\ PastEnd(bytes, off) > 0
          /\ res' = [res EXCEPT !.mem = mapped_slice(@, bytes, off),
                                !.past_end = 0,
                                !.last = Copied(bytes, off, sz, "fault")]
       \/ /\ res.allocation = 0 \/ ~mapped_ptr(res) \/ off % AlignOf(sz) # 0
          /\ res' = [res EXCEPT !.last = Copied(bytes, off, sz, "panic")]
    /\ UNCHANGED <<frameVars, shader, graph, gds, tp>>

\* mutant: the view is created on every call and never looked up in the cache
Image_create_view_uncached ==
    /\ res.kind = "image"
    /\ res.created_views < MaxViews
    /\ res' = [res EXCEPT
                 !.view = res.created_views + 1,
                 !.created_views = @ + 1,
                 !.view_calls = Bump(@),
                 !.last = [Returned("Image::create_view", "ok")
                             EXCEPT !.ret = res.created_views + 1]]
    /\ UNCHANGED <<frameVars, shader, graph, gds, tp>>

\* Image::create_view: the cached view, or a new view that is cached. On a
\* destroyed image the device call has an invalid handle: it returns a view or
\* an error that the unwrap turns into a panic. view_calls counts the calls.
Image_create_view ==
    /\ res.kind = "image"
    /\ IF res.view # 0
         THEN res' = [res EXCEPT !.view_calls = Bump(@),
                                 !.last = [Returned("Image::create_view", "ok") EXCEPT !.ret = res.view]]
         ELSE /\ res.created_views < MaxViews
              /\ \/ res' = [res EXCEPT
                              !.view = res.created_views + 1,
                              !.created_views = @ + 1,
                              !.view_calls = Bump(@),
                              !.last = [Returned("Image::create_view", "ok")
                                          EXCEPT !.ret = res.created_views + 1]]
                 \/ /\ res.allocation = 0
                    /\ res' = [res EXCEPT !.view_calls = Bump(@),
                                          !.last = Returned("Image::create_view", "panic")]
    /\ UNCHANGED <<frameVars, shader, graph, gds, tp>>

\* Image::destroy: the view is taken and destroyed, then allocation.take().unwrap()
\* panics on None, else the allocation is freed and the image destroyed
Image_destroy ==
    /\ res.kind = "image"
    /\ LET dv == IF res.view = 0 THEN res.destroyed_views
                 ELSE [res.destroyed_views EXCEPT ![res.view] = Bump(@)] IN
       IF res.allocation = 0
         THEN res' = [res EXCEPT !.view = 0, !.destroyed_views = dv,
                                 !.last = Returned("Image::destroy", "panic")]
         ELSE res' = [res EXCEPT !.view = 0, !.destroyed_views = dv,
                                 !.allocation = 0,
                                 !.freed[IMAGE_ALLOCATION] = Bump(@),
                                 !.destroyed_handle = Bump(@),
                                 !.last = Returned("Image::destroy", "ok")]
    /\ UNCHANGED <<frameVars, shader, graph, gds, tp>>

\* the slices handed to copy_from_slice: up to BufSize bytes
Slices == UNION {[1 .. n -> ByteVals] : n \in 0 .. BufSize}

\* a Buffer in any memory location with any content behind its pointer, or an
\* Image (always GpuOnly)
InitResLayer ==
    /\ InitFrame
    /\ InitShader
    /\ InitGraph
    /\ InitGds
    /\ InitPool
    /\ \E kind \in {"buffer", "image"}, location \in MemoryLocations, mapped \in BOOLEAN,
          mem \in [Addrs -> ByteVals] :
         /\ location # "GpuOnly" => mapped
         /\ kind = "image" => location = "GpuOnly" /\ mem = [a \in Addrs |-> 0]
         /\ res = NewRes(kind, location, mapped, mem)

\* the resource layer with callers that size the buffer to the slice, as the
\* ones in render/mod.rs and Image::from_image_buffer do
NextRes ==
    \/ \E bytes \in Slices, off \in Addrs, sz \in 1 .. MaxElemSize :
         off + Len(bytes) <= BufSize /\ copy_from_slice(bytes, off, sz)
    \/ Buffer_destroy
    \/ Image_create_view
    \/ Image_destroy

SpecRes == InitResLayer /\ [][NextRes]_vars

\* copy_from_slice with any slice at any offset, on a buffer of any content,
\* live or destroyed: one call per buffer
NextCopy ==
    \/ \E bytes \in Slices, off \in Addrs, sz \in 1 .. MaxElemSize :
         res.last.op # "copy_from_slice" /\ copy_from_slice(bytes, off, sz)
    \/ res.last.op = "" /\ Buffer_destroy

SpecCopy == InitResLayer /\ [][NextCopy]_vars

\* ------------------------------------------------------------------ claims of the resource layer
LastCopy == res.last.op = "copy_from_slice"

\* C8: once a Buffer or an Image is destroyed, every later destroy of it and
\* every later copy_from_slice on the buffer panics; the allocator frees no
\* allocation twice and no buffer, image or view handle is destroyed twice, and
\* the panicking copy leaves the bytes and the written flag alone.
C8_DestroyedStaysDestroyed ==
    /\ \A a \in DOMAIN res.freed : res.freed[a] <= 1
    /\ res.destroyed_handle <= 1
    /\ \A v \in DOMAIN res.destroyed_views : res.destroyed_views[v] <= 1
    /\ (res.last.op \in {"Buffer::destroy", "Image::destroy", "copy_from_slice"} /\ ~res.last.live)
         => /\ res.last.result = "panic"
            /\ res.mem = res.last.pre
            /\ res.allocation = 0

C8_Witness ==
    /\ res.last.op = "Buffer::destroy"
    /\ ~res.last.live
    /\ res.last.result = "panic"
    /\ res.freed[BUFFER_ALLOCATION] = 1

HostVisible == res.location \in {"CpuToGpu", "GpuToCpu"}

C10_UnmappedCopyPanics ==
    (LastCopy /\ ~res.mapped)
      => /\ res.last.result = "panic"
         /\ res.mem = res.last.pre
         /\ ~res.has_been_written_to

C10_Witness ==
    /\ LastCopy /\ ~res.mapped /\ res.last.live
    /\ res.location = "GpuOnly"
    /\ Len(res.last.bytes) > 0
    /\ res.last.result = "panic"

\* C11: over any sequence of create_view calls on an image between its creation
\* and its destroy, at most one image view is created on the device and every
\* call returns that one view.
C11_CreateViewIdempotent ==
    (res.kind = "image" /\ res.allocation # 0)
      => /\ res.created_views <= 1
         /\ res.last.op = "Image::create_view"
              => /\ res.last.result = "ok"
                 /\ res.last.ret = 1
                 /\ res.view = 1
                 /\ res.created_views = 1

C11_Witness ==
    /\ res.kind = "image" /\ res.allocation # 0
    /\ res.last.op = "Image::create_view"
    /\ res.view_calls = 2
    /\ res.last.ret = 1

\* ------------------------------------------------------------------ descriptor synthesis
\* ExampleBase::max_descriptor_count
max_descriptor_count == 1024

\* Binding names are sequences of symbols: the prefixes "sampler_" and "u_" and
\* the suffix "_dyn" are one symbol each, every other symbol is one character.
One == [c |-> "One", n |-> 1]
Unbounded == [c |-> "Unbounded", n |-> 0]
StaticSized(n) == [c |-> "StaticSized", n |-> n]
Info(ty, name, count) == [ty |-> ty, name |-> name, count |-> count]

\* the bindings a reflected shader declares in this model
Infos ==
    { Info("SAMPLER", <<"sampler_", "l", "l", "r">>, One),
      Info("SAMPLER", <<"sampler_", "n", "l", "c">>, One),
      Info("SAMPLER", <<"sampler_", "l", "n", "c", "b">>, One),
      Info("SAMPLER", <<"l", "l", "r">>, One),
      Info("SAMPLER", <<"sampler_", "x", "l", "r">>, One),
      Info("SAMPLER", <<"sampler_", "l">>, One),
      Info("SAMPLER", <<"sampler_", "l", "l", "x">>, One),
      Info("STORAGE_BUFFER", <<"x">>, One),
      Info("STORAGE_BUFFER", <<"x", "_dyn">>, StaticSized(2)),
      Info("SAMPLED_IMAGE", <<"u_", "x">>, One),
      Info("SAMPLED_IMAGE", <<"x">>, Unbounded),
      Info("UNIFORM_BUFFER", <<"u_", "x">>, StaticSized(2)),
      Info("UNIFORM_BUFFER_DYNAMIC", <<"x">>, One),
      Info("INPUT_ATTACHMENT", <<"x">>, One) }

starts_with(name, sym) == Len(name) > 0 /\ name[1] = sym
ends_with(name, sym) == Len(name) > 0 /\ name[Len(name)] = sym

\* lines 176-184
descriptor_count(binding) ==
    IF starts_with(binding.name, "u_") THEN max_descriptor_count
    ELSE IF binding.count.c = "One" THEN 1
    ELSE IF binding.count.c = "StaticSized" THEN binding.count.n
    ELSE max_descriptor_count

\* the descriptor types of the first match arm (lines 189-195)
BufferAndImageTypes ==
    {"UNIFORM_BUFFER", "UNIFORM_TEXEL_BUFFER", "STORAGE_IMAGE", "STORAGE_BUFFER",
     "STORAGE_BUFFER_DYNAMIC", "COMBINED_IMAGE_SAMPLER", "SAMPLED_IMAGE"}

\* lines 199-229
descriptor_type(binding) ==
    IF binding.ty = "STORAGE_BUFFER" /\ ends_with(binding.name, "_dyn")
      THEN "STORAGE_BUFFER_DYNAMIC"
      ELSE binding.ty

NoSampler == [texel_filter |-> "", mipmap_mode |-> "", address_modes |-> ""]
Panic == [ok |-> FALSE, binding |-> 0, descriptor_count |-> 0, descriptor_type |-> "",
          immutable_sampler |-> NoSampler]
LayoutBinding(b, n, ty, sampler) ==
    [ok |-> TRUE, binding |-> b, descriptor_count |-> n, descriptor_type |-> ty,
     immutable_sampler |-> sampler]

Filters == [n |-> "NEAREST", l |-> "LINEAR"]
AddressModes ==
    [spec \in {<<"r">>, <<"m", "r">>, <<"c">>, <<"c", "b">>} |->
       IF spec = <<"r">> THEN "REPEAT"
       ELSE IF spec = <<"m", "r">> THEN "MIRRORED_REPEAT"
       ELSE IF spec = <<"c">> THEN "CLAMP_TO_EDGE"
       ELSE "CLAMP_TO_BORDER"]

\* ExampleBase::create_samplers: the address modes of the sampler cache
immutable_samplers == {"REPEAT", "CLAMP_TO_EDGE"}

\* mutant: an address token that is not recognized falls back to REPEAT
address_mode_or_repeat(spec) ==
    IF spec \in DOMAIN AddressModes THEN AddressModes[spec] ELSE "REPEAT"

\* lines 250-256; "" stands for the panic of the last arm
address_mode(spec) ==
    IF spec \in DOMAIN AddressModes THEN AddressModes[spec] ELSE ""

\* lines 233-276: the name of a sampler binding is parsed, every token that
\* does not parse panics (an empty rest panics in the slice &spec[..1]), and
\* get_sampler panics for a sampler that is not in the cache
sampler_binding(b, binding) ==
    IF ~starts_with(binding.name, "sampler_") THEN Panic
    ELSE LET spec0 == Tail(binding.name) IN
      IF spec0 = <<>> \/ spec0[1] \notin DOMAIN Filters THEN Panic
      ELSE LET spec1 == Tail(spec0) IN
        IF spec1 = <<>> \/ spec1[1] \notin DOMAIN Filters THEN Panic
        ELSE LET address_modes == address_mode(Tail(spec1)) IN
          IF address_modes = "" THEN Panic
          ELSE IF address_modes \notin immutable_samplers THEN Panic
          ELSE LayoutBinding(b, 1, "SAMPLER",
                             [texel_filter |-> Filters[spec0[1]],
                              mipmap_mode |-> Filters[spec1[1]],
                              address_modes |-> address_modes])

\* lines 188-287: one DescriptorSetLayoutBinding per reflected binding, or the
\* panic of unimplemented!
layout_binding(b, binding) ==
    IF binding.ty \in BufferAndImageTypes
      THEN LayoutBinding(b, descriptor_count(binding), descriptor_type(binding), NoSampler)
    ELSE IF binding.ty = "SAMPLER" THEN sampler_binding(b, binding)
    ELSE IF binding.ty = "ACCELERATION_STRUCTURE_KHR"
      THEN LayoutBinding(b, descriptor_count(binding), "ACCELERATION_STRUCTURE_KHR", NoSampler)
    ELSE Panic

\* the bindings of set s of a reflection
BindingsOf(refl, s) == {b \in BindingIndices : refl[s][b] # NoBinding}
\* the keys of spirv_descripor_set_layouts
SetKeys(refl) == {s \in SetIndices : BindingsOf(refl, s) # {}}

\* lines 141-146
set_count(refl) == IF SetKeys(refl) = {} THEN 0 ELSE 1 + (CHOOSE m \in SetKeys(refl) : \A s \in SetKeys(refl) : s <= m)

\* mutant: bindless bindings get UPDATE_AFTER_BIND (the lines 165-174, which are
\* commented out)
binding_flags_update_after_bind(binding) ==
    IF starts_with(binding.name, "u_")
      THEN {"PARTIALLY_BOUND", "UPDATE_AFTER_BIND"}
      ELSE {"PARTIALLY_BOUND"}

\* lines 159-160: every binding of a set is PARTIALLY_BOUND
binding_flags(binding) == {"PARTIALLY_BOUND"}

\* lines 156-313 and 315-326: the create info of the layout of set s and its
\* binding-type map; flags is set_layout_create_flags, which stays empty
set_layout(refl, s) ==
    LET order == Ascending(BindingsOf(refl, s))
        bindings == [i \in 1 .. Len(order) |-> layout_binding(order[i], refl[s][order[i]])] IN
    [ok |-> \A i \in 1 .. Len(order) : bindings[i].ok,
     flags |-> {},
     bindings |-> bindings,
     binding_flags |-> [i \in 1 .. Len(order) |-> binding_flags(refl[s][order[i]])],
     info |-> {<<bindings[i].binding, bindings[i].descriptor_type>> : i \in 1 .. Len(order)}]

\* mutant: only the sets that are referenced get a layout
synthesize_referenced_only(refl) ==
    LET keys == Ascending(SetKeys(refl))
        layouts == [i \in 1 .. Len(keys) |-> set_layout(refl, keys[i])]
        bad == {i \in 1 .. Len(keys) : ~layouts[i].ok} IN
    IF bad = {}
      THEN [returned |-> TRUE, panicked |-> FALSE, created |-> Len(keys),
            set_layouts |-> layouts,
            set_layout_info |-> [i \in 1 .. Len(keys) |-> layouts[i].info]]
      ELSE [NoOutput EXCEPT !.panicked = TRUE]

\* Shader::create_descriptor_set_layouts as a function of the reflection: the
\* two vectors it returns, or the panic of the first set that has a binding
\* that panics; created counts the layouts created on the device before it
synthesize(refl) ==
    LET n == set_count(refl)
        layouts == [i \in 1 .. n |-> set_layout(refl, i - 1)]
        bad == {i \in 1 .. n : ~layouts[i].ok} IN
    IF bad = {}
      THEN [returned |-> TRUE, panicked |-> FALSE, created |-> n,
            set_layouts |-> layouts,
            set_layout_info |-> [i \in 1 .. n |-> layouts[i].info]]
      ELSE [NoOutput EXCEPT !.panicked = TRUE,
                            !.created = (CHOOSE i \in bad : \A j \in bad : i <= j) - 1]

Declared(refl) == Cardinality({<<s, b>> \in SetIndices \X BindingIndices : refl[s][b] # NoBinding})

\* Shader::new, lines 58-59: the reflection of the SPIR-V yields one more binding
reflect(s, b, info) ==
    /\ shader.phase = "new"
    /\ shader.spirv_descripor_set_layouts[s][b] = NoBinding
    /\ Declared(shader.spirv_descripor_set_layouts) < MaxBindings
    /\ shader' = [shader EXCEPT !.spirv_descripor_set_layouts[s][b] = info]
    /\ UNCHANGED <<frameVars, res, graph, gds, tp>>

create_descriptor_set_layouts ==
    /\ shader.phase = "new"
    /\ shader' = [shader EXCEPT !.phase = "synthesized",
                                !.out = synthesize(shader.spirv_descripor_set_layouts)]
    /\ UNCHANGED <<frameVars, res, graph, gds, tp>>

\* shaders.rs 86-99: the number of entries of type ty over all the maps of
\* set_layout_info
RECURSIVE bindings_of_type(_, _)
bindings_of_type(set_layout_info, ty) ==
    IF set_layout_info = <<>> THEN 0
    ELSE Cardinality({e \in Head(set_layout_info) : e[2] = ty})
           + bindings_of_type(Tail(set_layout_info), ty)

\* shaders.rs 86-99: the first entry of a type makes a pool size of
\* max_descriptor_count, every further entry of the type adds one to it
descriptor_pool_sizes(set_layouts, set_layout_info, ty) ==
    LET n == bindings_of_type(set_layout_info, ty) IN
    IF n = 0 THEN 0 ELSE max_descriptor_count + (n - 1)

\* shaders.rs 80-123: Shader::create_descriptor_sets makes the pool with
\* max_sets(2) and allocates one set per layout from it
create_descriptor_sets ==
    /\ shader.phase = "synthesized"
    /\ shader.out.returned
    /\ shader' = [shader EXCEPT
         !.phase = "allocated",
         !.pool = [pool_sizes |-> [ty \in DescriptorTypes |->
                                    descriptor_pool_sizes(shader.out.set_layouts,
                                                          shader.out.set_layout_info, ty)],
                   max_sets |-> 2,
                   allocated |-> Len(shader.out.set_layouts)]]
    /\ UNCHANGED <<frameVars, res, graph, gds, tp>>

InitShaderLayer == InitFrame /\ InitRes /\ InitShader /\ InitGraph /\ InitGds /\ InitPool

NextShader ==
    \/ \E s \in SetIndices, b \in BindingIndices, info \in Infos : reflect(s, b, info)
    \/ create_descriptor_set_layouts
    \/ create_descriptor_sets

SpecShader == InitShaderLayer /\ [][NextShader]_vars

\* ------------------------------------------------------------------ claims of the synthesizer
Refl == shader.spirv_descripor_set_layouts
Synthesized == shader.phase = "synthesized"

\* C12: when create_descriptor_set_layouts returns for a shader whose highest
\* referenced set index is M, it returns M+1 layouts and M+1 binding-type maps
\* in index order (none when no set is referenced), and the layout and the map
\* at index i are empty exactly when set i has no bindings.
C12_NoGap ==
    (Synthesized /\ shader.out.returned)
      => LET out == shader.out
             n == IF SetKeys(Refl) = {} THEN 0
                  ELSE 1 + (CHOOSE m \in SetKeys(Refl) : \A s \in SetKeys(Refl) : s <= m) IN
         /\ Len(out.set_layouts) = n
         /\ Len(out.set_layout_info) = n
         /\ out.created = n
         /\ \A i \in 1 .. n :
              /\ (out.set_layouts[i].bindings = <<>>) <=> (BindingsOf(Refl, i - 1) = {})
              /\ (out.set_layout_info[i] = {}) <=> (BindingsOf(Refl, i - 1) = {})
              /\ {p[1] : p \in out.set_layout_info[i]} = BindingsOf(Refl, i - 1)

C12_Witness ==
    /\ Synthesized /\ shader.out.returned
    /\ SetKeys(Refl) = {0, 2}
    /\ Len(shader.out.set_layouts) = 3
    /\ shader.out.set_layouts[2].bindings = <<>>

\* the bindings of a returned layout whose name carries the bindless marker
Bindless(i) ==
    {j \in 1 .. Len(shader.out.set_layouts[i].bindings) :
       starts_with(Refl[i - 1][shader.out.set_layouts[i].bindings[j].binding].name, "u_")}

ParsesAsSampler(name) ==
    /\ Len(name) >= 4
    /\ name[1] = "sampler_"
    /\ name[2] \in {"n", "l"}
    /\ name[3] \in {"n", "l"}
    /\ SubSeq(name, 4, Len(name)) \in {<<"r">>, <<"m", "r">>, <<"c">>, <<"c", "b">>}

Unparsed ==
    {<<s, b>> \in SetIndices \X BindingIndices :
       Refl[s][b].ty = "SAMPLER" /\ ~ParsesAsSampler(Refl[s][b].name)}

\* C14: for a shader with a sampler binding whose name does not parse,
\* create_descriptor_set_layouts panics: it returns no layout and no map, and
\* no binding with another sampler is produced.
C14_UnparsedSamplerPanics ==
    (Synthesized /\ Unparsed # {})
      => /\ shader.out.panicked
         /\ ~shader.out.returned
         /\ shader.out.set_layouts = <<>>
         /\ shader.out.set_layout_info = <<>>

C14_Witness ==
    /\ Synthesized
    /\ \E p \in Unparsed : Refl[p[1]][p[2]].name = <<"sampler_", "l", "l", "x">>
    /\ \E s \in SetIndices, b \in BindingIndices : Refl[s][b].ty = "STORAGE_BUFFER"
    /\ shader.out.panicked

\* ------------------------------------------------------------------ SequentialPassSystem
\* graph.passes is the Vec<SequentialPass>; a node is named by the order of its
\* creation (graph.nodes counts the nodes boxed so far). graph.log is the
\* sequence of the calls made on nodes in the frame in progress, or in the last
\* frame when none is. render_system holds the SequentialPassSystem through
\* resource_scope for the whole frame, so add_pass and remove_pass act only
\* between frames.
PassIds == 1 .. MaxIds

SequentialPass(id, node) == [id |-> id, node |-> node]

NodeCall(op, node) == [op |-> op, node |-> node]

\* Vec::retain
RECURSIVE retain(_, _)
retain(v, id) ==
    IF v = <<>> THEN <<>>
    ELSE IF Head(v).id # id THEN <<Head(v)>> \o retain(Tail(v), id)
    ELSE retain(Tail(v), id)

\* add_pass: push
add_pass(id) ==
    /\ graph.phase = "idle"
    /\ graph.nodes < MaxNodes
    /\ graph' = [graph EXCEPT !.passes = Append(@, SequentialPass(id, graph.nodes + 1)),
                              !.nodes = @ + 1]
    /\ UNCHANGED <<frameVars, res, shader, gds, tp>>

\* remove_pass: retain the passes with another id
remove_pass(id) ==
    /\ graph.phase = "idle"
    /\ graph' = [graph EXCEPT !.passes = retain(@, id)]
    /\ UNCHANGED <<frameVars, res, shader, gds, tp>>

\* render_system enters graph.update(world)
graph_update_begin ==
    /\ graph.phase = "idle"
    /\ graph' = [graph EXCEPT !.phase = "update", !.i = 1, !.log = <<>>]
    /\ UNCHANGED <<frameVars, res, shader, gds, tp>>

\* mutant: the node is run right after its update
graph_update_node_and_run ==
    /\ graph.phase = "update"
    /\ graph.i <= Len(graph.passes)
    /\ graph' = [graph EXCEPT
          !.log = @ \o <<NodeCall("update", graph.passes[graph.i].node),
                         NodeCall("run", graph.passes[graph.i].node)>>,
          !.i = @ + 1]
    /\ UNCHANGED <<frameVars, res, shader, gds, tp>>

\* one iteration of the loop of SequentialPassSystem::update
graph_update_node ==
    /\ graph.phase = "update"
    /\ graph.i <= Len(graph.passes)
    /\ graph' = [graph EXCEPT
          !.log = Append(@, NodeCall("update", graph.passes[graph.i].node)),
          !.i = @ + 1]
    /\ UNCHANGED <<frameVars, res, shader, gds, tp>>

\* update returns, render_system enters graph.run(world)
graph_run_begin ==
    /\ graph.phase = "update"
    /\ graph.i > Len(graph.passes)
    /\ graph' = [graph EXCEPT !.phase = "run", !.i = 1]
    /\ UNCHANGED <<frameVars, res, shader, gds, tp>>

\* one iteration of the loop of SequentialPassSystem::run, the node returns Ok
graph_run_node ==
    /\ graph.phase = "run"
    /\ graph.i <= Len(graph.passes)
    /\ graph' = [graph EXCEPT
          !.log = Append(@, NodeCall("run", graph.passes[graph.i].node)),
          !.i = @ + 1]
    /\ UNCHANGED <<frameVars, res, shader, gds, tp>>

\* one iteration of the loop of SequentialPassSystem::run, the node returns
\* Err: unwrap panics
graph_run_node_err ==
    /\ graph.phase = "run"
    /\ graph.i <= Len(graph.passes)
    /\ graph' = [graph EXCEPT
          !.log = Append(@, NodeCall("run", graph.passes[graph.i].node)),
          !.phase = "panicked"]
    /\ UNCHANGED <<frameVars, res, shader, gds, tp>>

\* run returns, the frame is over
graph_run_end ==
    /\ graph.phase = "run"
    /\ graph.i > Len(graph.passes)
    /\ graph' = [graph EXCEPT !.phase = "idle", !.i = 1]
    /\ UNCHANGED <<frameVars, res, shader, gds, tp>>

NextPass ==
    \/ \E id \in PassIds : add_pass(id)
    \/ \E id \in PassIds : remove_pass(id)
    \/ graph_update_begin
    \/ graph_update_node
    \/ graph_run_begin
    \/ graph_run_node
    \/ graph_run_node_err
    \/ graph_run_end

SpecPass == Init /\ [][NextPass]_vars

\* ------------------------------------------------------------------ claims on the pass system
\* the calls of a frame over the passes v: update on every node in the order of
\* v, then run on every node in the order of v
FrameCalls(v) ==
    [j \in 1 .. 2 * Len(v) |->
        IF j <= Len(v) THEN NodeCall("update", v[j].node)
        ELSE NodeCall("run", v[j - Len(v)].node)]

\* C17: whatever add_pass and remove_pass calls were made between frames, the
\* calls a frame makes on nodes are update on every node of the pass list in
\* insertion order followed by run on every node in insertion order, each once:
\* while the frame is in progress the calls made are a prefix of that sequence,
\* no run is made before the last update, and the frame that ends made all of it.
C17_UpdateAllThenRunAll ==
    /\ [](graph.phase # "idle" => IsPrefix(graph.log, FrameCalls(graph.passes)))
    /\ [](graph.phase = "update" =>
            /\ Len(graph.log) = graph.i - 1
            /\ \A j \in 1 .. Len(graph.log) : graph.log[j].op = "update")
    /\ [][(graph.phase = "run" /\ graph'.phase = "idle")
            => graph'.log = FrameCalls(graph.passes)]_vars
    /\ [][graph.phase # "idle" => graph'.passes = graph.passes]_vars

C17_Witness ==
    /\ graph.phase = "idle"
    /\ graph.nodes = 3
    /\ Len(graph.passes) = 2
    /\ graph.log = FrameCalls(graph.passes)
    /\ graph.passes[1].node = 1
    /\ graph.passes[2].node = 3

\* ------------------------------------------------------------------ claims on the render world
\* C15: get_texture_index maps the resident keys one-to-one onto 0..n-1 in
\* ascending key order (distinct keys get distinct indices, the lower key the
\* lower index), gives none for an absent key, and a registration stores the
\* index of that moment in the uniform of the material.
C15_IndexIsAscendingPosition ==
    LET ix(k) == get_texture_index(textures, k) IN
    /\ {ix(k) : k \in textures} = 0 .. (Cardinality(textures) - 1)
    /\ \A k1, k2 \in textures : k1 < k2 => ix(k1) < ix(k2)
    /\ \A k \in Items \ textures : ix(k) = -1
    /\ \A m \in Items : (hostWritten = {m} /\ material_index[m] # NoIndex)
                          => material_index[m] = ix(base_color_texture(m))

C15_Witness ==
    /\ textures = {1, 2}
    /\ hostWritten = {1}
    /\ material_index[1] = 0
    /\ material_index[2] = 0

\* C16 as stated: PresentNode::update issues descriptor writes only in a frame
\* before which a texture was registered since the previous flush; a frame
\* where only uniform buffers were written issues none.
C16_FlushOnlyOnResidencyChange == flush.writes # <<>> => flush.needed

\* C19 as stated: the buffers stored for a mesh handle are the ones created when
\* the handle was first observed, and no second set of buffers is created for
\* the handle.
C19_MeshCreatedOnce ==
    \A h \in MeshHandles : meshes[h].created <= 1 /\ meshes[h].stored <= 1

\* C20 as stated: the texture index in the uniform buffer of a material is the
\* current get_texture_index of its texture, the array element the latest
\* update_descriptor_set wrote for it.
C20_StoredIndexIsCurrent ==
    \A m \in Items : material_index[m] # NoIndex
      => /\ material_index[m] = get_texture_index(textures, base_color_texture(m))
         /\ \A j \in 1 .. Len(flush.writes) :
              flush.writes[j].key = base_color_texture(m)
                => flush.writes[j].dst_array_element = material_index[m]

\* ------------------------------------------------------------------ claims on failures
\* C18: when a device call of the frame thread returns an error, the thread
\* panics at that call: run returns no error value, and from then on the
\* program takes no step of the frame and starts no later frame (it makes no
\* device call, submits and presents nothing, writes nothing to the world; only
\* work already on the GPU queue may still complete).
C18_DeviceErrorAborts ==
    /\ [](device_error # "" => pc = "panicked")
    /\ [][pc = "panicked" =>
            /\ pc' = "panicked"
            /\ Len(gpuQueue') <= Len(gpuQueue)
            /\ UNCHANGED <<rsCb, calls, worldVars, swapVars, objects_count,
                           poolVars, extVars>>]_vars

C18_Witness ==
    /\ device_error = "queue_submit"
    /\ pc = "panicked"
    /\ cbState["draw"] = "executable"

\* ------------------------------------------------------------------ GlobalDescriptorSet and its images
\* gds.textures maps a key to the GpuImage stored under it (0: none), gds.images
\* holds every GpuImage created so far, a view is named by the image it views.
\* gds.set is what binding 0 of the descriptor set holds on the device.
Resident == {k \in GdsKeys : gds.textures[k] # 0}

\* ctx.rs 783-803: the one barrier copy_buffer_to_texture records
upload_barriers == <<[old_layout |-> "UNDEFINED", new_layout |-> "TRANSFER_DST_OPTIMAL"]>>

\* the layout of an image after the barriers recorded on it were executed
RECURSIVE layout_after(_, _)
layout_after(barriers, layout) ==
    IF barriers = <<>> THEN layout
    ELSE layout_after(Tail(barriers), Head(barriers).new_layout)

\* Image::from_image_buffer: Image::new creates the image without a view, in
\* the layout UNDEFINED; copy_buffer_to_texture records the barrier and the copy
\* from the staging buffer, submits and waits for the queue
Image_from_image_buffer ==
    [state |-> "resident", layout |-> layout_after(upload_barriers, "UNDEFINED"), view |-> FALSE]

NextImage == Cardinality({i \in ImageIds : gds.images[i].state # "none"}) + 1

\* BTreeMap::insert of a new GpuImage under key k: the GpuImage stored under k
\* before is dropped. Image has no Drop: the dropped value is not destroyed
textures_insert(k, image) ==
    [gds EXCEPT
       !.textures = [@ EXCEPT ![k] = NextImage],
       !.images = [i \in ImageIds |->
                     IF i = NextImage THEN image
                     ELSE IF i = gds.textures[k] THEN [gds.images[i] EXCEPT !.state = "dropped"]
                     ELSE gds.images[i]],
       !.last = "insert"]

\* extract_textures_from_materials, lines 652-661: the texture of an
\* AssetEvent::Created is uploaded and inserted
extract_textures_insert(k) ==
    /\ NextImage <= MaxImages
    /\ gds' = textures_insert(k, Image_from_image_buffer)
    /\ UNCHANGED <<frameVars, res, shader, graph, tp>>

\* extract_materials, lines 707-720: the base color texture of a changed
\* material is uploaded, its view is created, and it is inserted
extract_materials_insert(k) ==
    /\ NextImage <= MaxImages
    /\ gds' = textures_insert(k, [Image_from_image_buffer EXCEPT !.view = TRUE])
    /\ UNCHANGED <<frameVars, res, shader, graph, tp>>

\* lines 144-147: the image info built for a texture
DescriptorImageInfo(image) ==
    [image_layout |-> "SHADER_READ_ONLY_OPTIMAL", image_view |-> image, sampler |-> "default"]

\* mutant: the array element of a write is taken from the key
WriteDescriptorSets_by_key(texs, infos) ==
    LET order == Ascending(texs) IN
    [i \in 1 .. Len(order) |->
        [dst_binding |-> 0, descriptor_type |-> "COMBINED_IMAGE_SAMPLER",
         dst_array_element |-> order[i] - 1, key |-> order[i],
         image_info |-> infos[order[i]]]]

\* lines 164-173: one write per entry of textures, enumerated in key order
WriteDescriptorSets(texs, infos) ==
    LET order == Ascending(texs) IN
    [i \in 1 .. Len(order) |->
        [dst_binding |-> 0, descriptor_type |-> "COMBINED_IMAGE_SAMPLER",
         dst_array_element |-> i - 1, key |-> order[i],
         image_info |-> infos[order[i]]]]

\* vkUpdateDescriptorSets: every write replaces the element it names
RECURSIVE update_descriptor_sets(_, _)
update_descriptor_sets(set, writes) ==
    IF writes = <<>> THEN set
    ELSE update_descriptor_sets(
           [set EXCEPT ![Head(writes).dst_array_element] = Head(writes).image_info],
           Tail(writes))

\* GlobalDescriptorSet::update_descriptor_set: create_view on every resident
\* texture, an image info for every key that has none, the writes, the update
GlobalDescriptorSet_update ==
    LET infos == [k \in GdsKeys |->
                    IF k \in Resident /\ gds.image_infos[k] = NoInfo
                      THEN DescriptorImageInfo(gds.textures[k])
                      ELSE gds.image_infos[k]]
        writes == WriteDescriptorSets(Resident, infos)
    IN
    /\ \A j \in 1 .. Len(writes) : writes[j].dst_array_element \in Slots
    /\ gds' = [gds EXCEPT
          !.images = [i \in ImageIds |->
                        IF \E k \in Resident : gds.textures[k] = i
                          THEN [gds.images[i] EXCEPT !.view = TRUE]
                          ELSE gds.images[i]],
          !.image_infos = infos,
          !.writes = writes,
          !.set = update_descriptor_sets(gds.set, writes),
          !.last = "update_descriptor_set"]
    /\ UNCHANGED <<frameVars, res, shader, graph, tp>>

NextGds ==
    \/ \E k \in GdsKeys : extract_textures_insert(k)
    \/ \E k \in GdsKeys : extract_materials_insert(k)
    \/ GlobalDescriptorSet_update

SpecGds == Init /\ [][NextGds]_vars

\* ------------------------------------------------------------------ claims on the GlobalDescriptorSet
\* C21 as stated: the cached image info of every resident key names the view of
\* the GpuImage stored under the key, and every GpuImage created by a
\* registration is resident or destroyed, also when a key is registered again.
C21_InfoOfCurrentImage ==
    /\ \A k \in Resident : gds.image_infos[k] # NoInfo
          => gds.image_infos[k].image_view = gds.textures[k]
    /\ \A i \in ImageIds : gds.images[i].state \in {"none", "resident", "destroyed"}

\* C22 as stated: the image behind every element written to the descriptor set
\* is in the layout the element declares, SHADER_READ_ONLY_OPTIMAL.
C22_ImageInDeclaredLayout ==
    \A e \in Slots : gds.set[e] # NoInfo
      => /\ gds.set[e].image_layout = "SHADER_READ_ONLY_OPTIMAL"
         /\ gds.images[gds.set[e].image_view].layout = gds.set[e].image_layout

\* C28: a step of update_descriptor_set issues exactly one write per resident
\* texture, each to binding 0 with type COMBINED_IMAGE_SAMPLER, the write of key
\* k at array element get_texture_index(k); after it the elements 0..n-1 hold the
\* cached image infos of the n resident keys in ascending key order, and only a
\* key that had no cached image info got one built.
C28_OneWritePerResidentTexture ==
    [][(gds'.last = "update_descriptor_set" /\ gds' # gds) =>
        LET order == Ascending(Resident)
            w == gds'.writes
        IN
        /\ Len(w) = Cardinality(Resident)
        /\ \A k \in Resident : Cardinality({j \in 1 .. Len(w) : w[j].key = k}) = 1
        /\ \A j \in 1 .. Len(w) :
              /\ w[j].dst_binding = 0
              /\ w[j].descriptor_type = "COMBINED_IMAGE_SAMPLER"
              /\ w[j].key \in Resident
              /\ w[j].dst_array_element = get_texture_index(Resident, w[j].key)
              /\ w[j].image_info = gds'.image_infos[w[j].key]
        /\ \A i \in 1 .. Len(order) : gds'.set[i - 1] = gds'.image_infos[order[i]]
        /\ \A k \in GdsKeys : gds'.image_infos[k] # gds.image_infos[k]
              => /\ k \in Resident
                 /\ gds.image_infos[k] = NoInfo
                 /\ gds'.image_infos[k] = DescriptorImageInfo(gds.textures[k])
      ]_vars

C28_Witness ==
    /\ gds.last = "update_descriptor_set"
    /\ Resident = {1, 2}
    /\ Len(gds.writes) = 2
    /\ gds.set[0].image_view = gds.textures[1]
    /\ gds.set[1].image_view = gds.textures[2]
    /\ gds.textures[2] < gds.textures[1]

\* ------------------------------------------------------------------ claims on the lookups of run
\* C23 as stated: when run records a non-empty draw list, every lookup it makes
\* finds its entry: the camera uniform buffer when the queue is made, and for
\* every task the uniform buffer of the material of its item, the GpuMesh of its
\* mesh and the secondary command buffer of its thread.
C23_LookupsSucceed ==
    /\ pc = "queue_new" => CAMERA_HANDLE \in buffers
    /\ \A t \in Threads : workerPc[t] = "record"
          => /\ workerTask[t] \in buffers
             /\ \A h \in MeshHandles : meshes[h].stored # 0
             /\ CommandBufferOf(t) \in DOMAIN secCmds

\* ------------------------------------------------------------------ claims on the completion queue
\* C26: the queue is made with a capacity of at least one (ArrayQueue::new
\* panics on zero), it never holds more than its capacity objects_count, and
\* every push of a worker task succeeds: the step that ends a task appends the
\* thread index and does not panic.
C26_PushNeverFails ==
    /\ [](pc \in {"queue_new", "scope", "in_scope"} => objects_count > 0)
    /\ [](Len(queue) <= objects_count)
    /\ [][\A t \in Threads : (workerPc[t] = "push" /\ workerPc'[t] = "idle")
            => /\ Len(queue) < objects_count
               /\ queue' = Append(queue, t)
               /\ pc' = pc]_vars

C26_Witness ==
    /\ pc = "in_scope"
    /\ objects_count = MaxItems
    /\ Len(queue) = objects_count
    /\ \A j \in 1 .. Len(queue) : queue[j] = queue[1]

\* ------------------------------------------------------------------ claims on the swapchain image
\* the layouts of the barriers run records (nodes/mod.rs 153-156, 372-375)
barrier_layouts(cmd) ==
    IF cmd = "barrier_attachment"
      THEN [old_layout |-> "UNDEFINED", new_layout |-> "ATTACHMENT_OPTIMAL"]
      ELSE [old_layout |-> "ATTACHMENT_OPTIMAL", new_layout |-> "PRESENT_SRC_KHR"]

\* line 175: the layout cmd_begin_rendering names for the color attachment
color_attach_layout == "COLOR_ATTACHMENT_OPTIMAL"

\* ATTACHMENT_OPTIMAL of synchronization2 is, on a color image, the layout
\* COLOR_ATTACHMENT_OPTIMAL
ColorLayout(layout) ==
    IF layout = "ATTACHMENT_OPTIMAL" THEN "COLOR_ATTACHMENT_OPTIMAL" ELSE layout

Barriers(cmds) ==
    {j \in 1 .. Len(cmds) : cmds[j].cmd \in {"barrier_attachment", "barrier_present_src"}}

Positions(cmds, c) == {j \in 1 .. Len(cmds) : cmds[j].cmd = c}

\* the layout of image img after the first n commands of cmds, from layout l0
RECURSIVE LayoutAt(_, _, _, _)
LayoutAt(cmds, n, img, l0) ==
    IF n = 0 THEN l0
    ELSE IF n \in Barriers(cmds) /\ cmds[n].img = img
      THEN barrier_layouts(cmds[n].cmd).new_layout
      ELSE LayoutAt(cmds, n - 1, img, l0)

\* C27: the draw buffer of a frame, when it is submitted, holds exactly two
\* barriers, both on the acquired image: the first command takes the image to
\* the attachment layout before cmd_begin_rendering, which names that layout for
\* the color attachment; the image is in that layout at every command up to
\* cmd_end_rendering; the last command takes it from the attachment layout to
\* PRESENT_SRC_KHR. The present is queued after the queue has completed that
\* buffer, for the same image.
C27_TwoTransitionsPerFrame ==
    LET cmds == cbCmds["draw"]
        b == CHOOSE j \in Positions(cmds, "begin_rendering") : TRUE
        e == CHOOSE j \in Positions(cmds, "end_rendering") : TRUE
    IN
    /\ (rsCb = "draw" /\ pc = "queue_submit") =>
         /\ Barriers(cmds) = {1, Len(cmds)}
         /\ Len(cmds) > 1
         /\ cmds[1].cmd = "barrier_attachment"
         /\ cmds[Len(cmds)].cmd = "barrier_present_src"
         /\ cmds[1].img = present_index
         /\ cmds[Len(cmds)].img = present_index
         /\ Cardinality(Positions(cmds, "begin_rendering")) = 1
         /\ Cardinality(Positions(cmds, "end_rendering")) = 1
         /\ 1 < b /\ b < e /\ e < Len(cmds)
         /\ cmds[b].img = present_index
         /\ \A n \in b - 1 .. e :
              ColorLayout(LayoutAt(cmds, n, present_index, "UNDEFINED")) = color_attach_layout
         /\ LayoutAt(cmds, Len(cmds) - 1, present_index, "UNDEFINED")
              = barrier_layouts(cmds[Len(cmds)].cmd).old_layout
         /\ LayoutAt(cmds, Len(cmds), present_index, "UNDEFINED") = "PRESENT_SRC_KHR"
    /\ pc = "queue_present" =>
         /\ gpuQueue = <<>>
         /\ \E j \in 1 .. Len(calls) :
              calls[j].op = "queue_submit" /\ calls[j].img = present_index

C27_Witness ==
    /\ rsCb = "draw"
    /\ pc = "queue_submit"
    /\ present_index = 1
    /\ Len(cbCmds["draw"]) = 7
    /\ presented = -1

\* ------------------------------------------------------------------ claims on the bindings of the synthesizer
DeclaredBindings == {<<s, b>> \in SetIndices \X BindingIndices : Refl[s][b] # NoBinding}

\* the binding the synthesizer returned for binding b of set s
ReturnedBinding(s, b) ==
    LET l == shader.out.set_layouts[s + 1]
        j == CHOOSE j \in 1 .. Len(l.bindings) : l.bindings[j].binding = b
    IN [binding |-> l.bindings[j], flags |-> l.binding_flags[j]]

\* the reference rule of the element count
ReferenceCount(info) ==
    IF starts_with(info.name, "u_") \/ info.count.c = "Unbounded" THEN max_descriptor_count
    ELSE IF info.count.c = "StaticSized" THEN info.count.n
    ELSE 1

\* the reference rule of the descriptor type
ReferenceType(info) ==
    IF info.ty = "STORAGE_BUFFER" /\ ends_with(info.name, "_dyn")
      THEN "STORAGE_BUFFER_DYNAMIC"
      ELSE info.ty

\* C29 as stated: for a shader without sampler bindings the synthesizer returns,
\* and for every binding the element count and the descriptor type are those of
\* the reference rule and the binding is partially bound.
C29_NonSamplerReferenceRule ==
    (Synthesized /\ \A p \in DeclaredBindings : Refl[p[1]][p[2]].ty # "SAMPLER")
      => /\ shader.out.returned
         /\ \A p \in DeclaredBindings :
              LET r == ReturnedBinding(p[1], p[2]) IN
              /\ r.binding.descriptor_count = ReferenceCount(Refl[p[1]][p[2]])
              /\ r.binding.descriptor_type = ReferenceType(Refl[p[1]][p[2]])
              /\ "PARTIALLY_BOUND" \in r.flags

\* C30 as stated: for a shader all of whose bindings are samplers with a name
\* that parses, the synthesizer returns, and every binding has element count 1
\* and the immutable sampler of the filter, mipmap mode and address mode its
\* name encodes; the default sampler is in the cache.
C30_ParsedSamplerSynthesizes ==
    /\ "REPEAT" \in immutable_samplers
    /\ (Synthesized /\ \A p \in DeclaredBindings :
            Refl[p[1]][p[2]].ty = "SAMPLER" /\ ParsesAsSampler(Refl[p[1]][p[2]].name))
         => /\ shader.out.returned
            /\ \A p \in DeclaredBindings :
                 LET r == ReturnedBinding(p[1], p[2])
                     name == Refl[p[1]][p[2]].name IN
                 /\ r.binding.descriptor_count = 1
                 /\ r.binding.descriptor_type = "SAMPLER"
                 /\ r.binding.immutable_sampler =
                      [texel_filter |-> Filters[name[2]],
                       mipmap_mode |-> Filters[name[3]],
                       address_modes |-> AddressModes[SubSeq(name, 4, Len(name))]]

\* ------------------------------------------------------------------ the command thread pool
\* tp.thread[t] is the position of pool thread t: "starting" (spawned by build,
\* its start handler not yet run), "write_wait" (blocked in write() of the start
\* handler), "idle" (in the work loop), "read_wait" (blocked in read() of a
\* task), "task" (recording under its read guard). tp.map is the key set of
\* threaded_command_buffers. tp.frame is the position of the frame thread in
\* PresentNode::run: "idle", "locked" (it holds the read guard of line 258),
\* "scope" (blocked in command_thread_pool.scope), "joined".
\* The RwLock has no field of its own: its readers are the frame thread while
\* it holds its guard and the threads in "task", a writer holds it only within
\* one step, and the writers that wait are the threads in "write_wait".
ReadHeld ==
    \/ tp.frame \in {"locked", "scope", "joined"}
    \/ \E t \in Threads : tp.thread[t] = "task"

WriterWaiting == \E t \in Threads : tp.thread[t] = "write_wait"

\* the frames the pool layer follows
MaxFrames == 2

\* ctx.rs 727-749: the start handler of pool thread t, run by the thread when
\* it starts: write() is granted when the lock has no reader, and the handler
\* inserts the command buffer of the thread and returns
start_handler(t) ==
    /\ tp.thread[t] \in {"starting", "write_wait"}
    /\ ~ReadHeld
    /\ tp' = [tp EXCEPT !.thread[t] = "idle", !.map = @ \cup {t}]
    /\ UNCHANGED <<frameVars, res, shader, graph, gds>>

\* write() of the start handler finds the lock read-held and blocks
start_handler_blocks(t) ==
    /\ tp.thread[t] = "starting"
    /\ ReadHeld
    /\ tp' = [tp EXCEPT !.thread[t] = "write_wait"]
    /\ UNCHANGED <<frameVars, res, shader, graph, gds>>

\* nodes/mod.rs 258-281: run takes the read guard, begins every buffer of the
\* map and makes the queue for its n draw items. A read() that waits for a
\* writer to finish is this step taken after start_handler
run_read_lock(n) ==
    /\ tp.frame = "idle"
    /\ tp.frames < MaxFrames
    /\ tp' = [tp EXCEPT !.frame = "locked", !.frames = @ + 1, !.objects_count = n,
                        !.queued = 0, !.queue = <<>>, !.body_done = FALSE]
    /\ UNCHANGED <<frameVars, res, shader, graph, gds>>

\* line 288: scope is called from outside the pool: the body is injected into
\* the pool and the frame thread blocks
run_scope ==
    /\ tp.frame = "locked"
    /\ tp' = [tp EXCEPT !.frame = "scope"]
    /\ UNCHANGED <<frameVars, res, shader, graph, gds>>

\* lines 289-291: a pool thread in its work loop runs the body, which spawns one
\* task per draw item
scope_body(t) ==
    /\ tp.frame = "scope"
    /\ ~tp.body_done
    /\ tp.thread[t] = "idle"
    /\ tp' = [tp EXCEPT !.body_done = TRUE, !.queued = tp.objects_count]
    /\ UNCHANGED <<frameVars, res, shader, graph, gds>>

\* lines 292-293: a pool thread in its work loop takes a task, and read() is
\* granted. Whether read() is granted while a writer waits is left open by
\* std::sync::RwLock: this step and task_read_blocks are both possible then
task_read(t) ==
    /\ tp.frame = "scope"
    /\ tp.queued > 0
    /\ tp.thread[t] = "idle"
    /\ tp' = [tp EXCEPT !.thread[t] = "task", !.queued = @ - 1]
    /\ UNCHANGED <<frameVars, res, shader, graph, gds>>

\* read() of a task blocks behind a waiting writer. The writer waits for the
\* guard of the frame thread, which is dropped after the join only, so the
\* blocked read() is never granted
task_read_blocks(t) ==
    /\ tp.frame = "scope"
    /\ tp.queued > 0
    /\ tp.thread[t] = "idle"
    /\ WriterWaiting
    /\ tp' = [tp EXCEPT !.thread[t] = "read_wait", !.queued = @ - 1]
    /\ UNCHANGED <<frameVars, res, shader, graph, gds>>

\* lines 294-342: the task looks the buffer of its thread up in the map (the
\* unwrap panics when it is missing), records, pushes and drops its guard
task_end(t) ==
    /\ tp.thread[t] = "task"
    /\ tp' = [tp EXCEPT !.thread[t] = "idle",
                        !.queue = Append(@, t),
                        !.frame = IF t \in tp.map THEN @ ELSE "panicked"]
    /\ UNCHANGED <<frameVars, res, shader, graph, gds>>

\* line 345: scope returns once the body and every task have ended
run_join ==
    /\ tp.frame = "scope"
    /\ tp.body_done
    /\ Len(tp.queue) = tp.objects_count
    /\ tp' = [tp EXCEPT !.frame = "joined"]
    /\ UNCHANGED <<frameVars, res, shader, graph, gds>>

\* lines 347-391: the buffers are ended and executed, the callback returns and
\* drops the guard of line 258; the frame is submitted and presented
run_unlock ==
    /\ tp.frame = "joined"
    /\ tp' = [tp EXCEPT !.frame = "idle", !.objects_count = 0, !.queue = <<>>,
                        !.body_done = FALSE]
    /\ UNCHANGED <<frameVars, res, shader, graph, gds>>

NextPool ==
    \/ \E t \in Threads : start_handler(t)
    \/ \E t \in Threads : start_handler_blocks(t)
    \/ \E n \in 1 .. MaxTasks : run_read_lock(n)
    \/ run_scope
    \/ \E t \in Threads : scope_body(t)
    \/ \E t \in Threads : task_read(t)
    \/ \E t \in Threads : task_read_blocks(t)
    \/ \E t \in Threads : task_end(t)
    \/ run_join
    \/ run_unlock

SpecPool == Init /\ [][NextPool]_vars

\* the frame thread runs while it is not blocked, every pool thread runs while
\* it is not blocked
FairPool ==
    /\ WF_vars(run_scope \/ run_join \/ run_unlock)
    /\ \A t \in Threads :
         WF_vars(start_handler(t) \/ start_handler_blocks(t) \/ scope_body(t) \/ task_read(t)
                   \/ task_read_blocks(t) \/ task_end(t))

SpecPoolFair == SpecPool /\ FairPool

\* ------------------------------------------------------------------ claims on the command thread pool
\* C25 as stated: when a frame records, the map holds an entry for every pool
\* thread, no thread is blocked in a lock acquisition, and every task finds the
\* buffer of its thread.
C25_MapCompleteNoBlocking ==
    /\ tp.frame # "idle" => tp.map = Threads
    /\ \A t \in Threads : tp.thread[t] \notin {"write_wait", "read_wait"}
    /\ \A t \in Threads : tp.thread[t] = "task" => t \in tp.map
    /\ tp.frame # "panicked"

\* the steps of the frame thread from render_system on, in the frame engine,
\* where the pool threads are in their work loops when the first frame begins
FrameStep ==
    \/ PresentNode_update \/ PresentNode_run \/ acquire_next_image \/ wait_for_fences
    \/ reset_fences \/ reset_command_buffer \/ begin_command_buffer \/ copy_buffer_to_texture
    \/ end_command_buffer \/ queue_submit \/ queue_wait_idle \/ begin_rendering
    \/ begin_secondaries \/ queue_new \/ scope \/ spawn \/ join \/ end_secondaries
    \/ execute_commands \/ end_rendering \/ queue_present \/ render_system_end

\* the frame engine with a frame thread that runs while it is not blocked, a GPU
\* that completes every submission and pool threads that run their tasks
SpecLive ==
    /\ Spec
    /\ WF_vars(FrameStep)
    /\ WF_vars(GpuComplete)
    /\ \A t \in Threads :
         WF_vars((\E i \in Items : task_start(t, i)) \/ task_record(t) \/ task_push(t))

\* With the pool started, a frame that has begun returns to idle or the process
\* aborts: the fence waits and the join return (holds under SpecLive).
StartedPoolFrameCompletes ==
    (pc = "update") ~> (pc \in {"idle", "panicked"})

\* C24 as stated: under fair scheduling every frame that has begun reaches its
\* end (submission and present) or the process aborts; in particular the join
\* of the scope returns.
C24_FrameCompletes ==
    (tp.frame = "locked") ~> (tp.frame \in {"idle", "panicked"})

\* ------------------------------------------------------------------ claims on the descriptor pool
\* the descriptors of type ty the allocated sets need: the sum of the
\* descriptor counts of the bindings of the type over all set layouts
RECURSIVE CountOf(_, _)
CountOf(bindings, ty) ==
    IF bindings = <<>> THEN 0
    ELSE (IF Head(bindings).descriptor_type = ty THEN Head(bindings).descriptor_count ELSE 0)
           + CountOf(Tail(bindings), ty)

RECURSIVE Required(_, _)
Required(set_layouts, ty) ==
    IF set_layouts = <<>> THEN 0
    ELSE CountOf(Head(set_layouts).bindings, ty) + Required(Tail(set_layouts), ty)

\* C31 as stated: the pool made by create_descriptor_sets has, for every
\* descriptor type, at least the sum of the descriptor counts of the bindings of
\* that type, and its max-sets value is at least the number of sets allocated.
C31_PoolLargeEnough ==
    shader.phase = "allocated"
      => /\ \A ty \in DescriptorTypes :
              shader.pool.pool_sizes[ty] >= Required(shader.out.set_layouts, ty)
         /\ shader.pool.max_sets >= shader.pool.allocated

\* ------------------------------------------------------------------ claims on the bounds of a copy
\* C32 as stated: after copy_from_slice on a live host-visible buffer, either
\* the slice fits (offset plus its byte length is at most the size of the
\* buffer) or the call failed and wrote no byte, inside or outside the buffer.
C32_NoWriteOutsideBuffer ==
    (LastCopy /\ res.kind = "buffer" /\ HostVisible /\ res.last.live)
      => \/ res.last.off + Len(res.last.bytes) <= BufSize
         \/ /\ res.last.result # "ok"
            /\ res.mem = res.last.pre
            /\ res.past_end = 0

\* ------------------------------------------------------------------ claims on the staging buffer
\* C33: the staging buffer of an upload is destroyed only once the submitted
\* copy out of it has completed on the GPU (no pending submission reads it and
\* the setup command buffer has run), each upload makes one staging buffer and
\* destroys it in the one step that ends the upload, and no upload returns
\* with its staging buffer alive.
C33_StagingDestroyedAfterCopy ==
    [][/\ (staging = "written" /\ staging' = "none")
            => /\ pc = "upload_finish"
               /\ \A i \in 1 .. Len(gpuQueue) : STAGING \notin gpuQueue[i].reads
               /\ cbState["setup"] = "invalid"
               /\ fence["setup"]
       /\ (staging = "none" /\ staging' = "written") => (pc = "idle" /\ uploadKey = 0)
       /\ (pc # "idle" /\ pc' = "idle") => staging' = "none"]_vars

C33_Witness ==
    /\ pc = "idle"
    /\ staging = "none"
    /\ textures # {}
    /\ cbState["setup"] = "invalid"
    /\ gpuQueue = <<>>

\* ------------------------------------------------------------------ claims on the empty frame
\* C34: when the draw list is empty, the step of PresentNode::run returns Ok at
\* once and leaves the command buffers, the fences, the semaphores, the queue
\* and the swapchain as they were: when run has returned, it has made no device
\* call, acquired no image and queued no present.
C34_EmptyFrameNoEffect ==
    /\ []((pc = "run_return" /\ objects_count = 0)
           => (calls = <<>> /\ present_index = -1 /\ presented = -1))
    /\ [][(pc = "run" /\ pc' # "run" /\ objects = 0)
            => /\ pc' = "run_return"
               /\ UNCHANGED <<calls, cbVars, secVars, syncVars, swapVars>>]_vars

C34_Witness ==
    /\ pc = "run_return"
    /\ objects_count = 0
    /\ objects = 0
    /\ calls = <<>>
    /\ buffers # {}

====
